---- MODULE Spec2Model ----
(***************************************************************************)
(* Ballot lifecycle of DRE-ipy (cast -> audit | confirm -> tally, export)  *)
(* as a state machine over the SQLite store, the voters' Flask sessions    *)
(* and the requests in flight.                                             *)
(*                                                                         *)
(* Scope.  The handlers voting, auditOrConfirm, showBallot and download of *)
(* main.py, the helpers firstReceipt, auditBallot, confirmBallot and       *)
(* makeElectionJson, and the db.py functions they call are translated      *)
(* statement by statement.  Every db.py function commits on its own, so a  *)
(* handler is not a transaction.  A cast is split between getNewBallotID   *)
(* and insertNewBallot, where another request can observably interleave.   *)
(*                                                                         *)
(* Spec is the lifecycle as the handlers run it.  SpecTally drives         *)
(* db.incrementTallies below the handlers: two requests, each on its own   *)
(* connection, interleaved between the SELECT and the UPDATEs.             *)
(*                                                                         *)
(* The voter/session layer (Flask-Login's user loader) is taken to hand    *)
(* the handler the voter's row of the voters table.                        *)
(* Columns the lifecycle only writes (the cryptograms R, Z and the proof   *)
(* values) are not part of the rows modelled here.                         *)
(* A storage statement may raise; the compensating deleteBallot does not.  *)
(*                                                                         *)
(* The functions of crypto.py are checked on their own, each under a       *)
(* specification that draws the arguments in its initial states and calls  *)
(* the function in its one or two actions: SpecZK (generateZKProof,        *)
(* verifyZKProof), SpecNum (generateNumProof, verifyNumProof), SpecVerify  *)
(* (verifyElectionJson).  SpecSum runs incrementTallies for two confirmed  *)
(* ballots one after the other, SpecAudit helpers.auditBallot on one cast  *)
(* ballot.  The curve group is the cyclic group of a small prime order.    *)
(* SpecExport follows one stage payload from json.dumps at cast, audit or  *)
(* confirm time through the store and the export to the verifier's hash,   *)
(* SpecPair runs GeneratorPair.generatePair on a small curve, SpecRand     *)
(* generateRandSecret, SpecCount the count k of the aggregate proof at     *)
(* cast and at replay, SpecConfirm the two statements of a confirm behind  *)
(* confirmBallot, SpecForm QuestionForm's validators on a posted form.     *)
(* SpecQuestions runs ElectionForm.validateQuestions on posted items,      *)
(* SpecBoard db.getBallots along the lifecycle of two ballots, SpecResults *)
(* the results page while the tallies grow, SpecSign auditOrConfirm's      *)
(* signature check.  SpecWritten and SpecFinished run the handlers from a  *)
(* written transcript and from a voter who has finished voting.            *)
(* owner records, per ballot_id, the voter whose request inserted the row; *)
(* the store itself keeps no voter with a ballot.                          *)
(***************************************************************************)
EXTENDS Integers, Sequences, FiniteSets, TLC

(* ------------------------------ bounds --------------------------------- *)
\* number of ballot rows that may be inserted in one behaviour
MaxCasts == 2
\* choices per question (index_num 0 .. NumChoices-1)
NumChoices == 2
\* questions of the election (question_num 1 .. NumQuestions)
NumQuestions == 1
\* storage statements that may raise in one behaviour
MaxFaults == 1

Voters == {"v1", "v2"}
Ids == 1..MaxCasts
Choices == 0..(NumChoices - 1)
Questions == 1..NumQuestions

\* SQL NULL in an integer column
NULL == -1
\* SQL NULL in a text column (hex() never yields the empty string)
NullText == <<>>

\* the secrets generateRandSecret is taken to return in this model
SecretSet == {18, 33}

\* Question.max_answers: 1 <= k < number of choices
max_answers == 1

(* ------------------------- hex() and hexToMpz -------------------------- *)
\* a character that is no hexadecimal digit ('x' of "-0x..")
BadDigit == 16

RECURSIVE HexDigits(_)
HexDigits(v) == IF v < 16 THEN <<v>> ELSE Append(HexDigits(v \div 16), v % 16)

\* hex(v)[2:] : the digits of v >= 0; for v < 0 Python gives "-0x.." and the
\* slice keeps "x..", which is no hexadecimal string
hexStr(v) == IF v >= 0 THEN HexDigits(v) ELSE <<BadDigit>> \o HexDigits(0 - v)

\* bytes.fromhex: raises ValueError on an odd number of digits or a non-digit
FromHexOk(s) == Len(s) % 2 = 0 /\ \A i \in 1..Len(s) : s[i] < 16
FromHex(s) == [i \in 1..(Len(s) \div 2) |-> 16 * s[2 * i - 1] + s[2 * i]]

RECURSIVE LittleEndian(_, _)
LittleEndian(bytes, len) ==
    IF len = 0 THEN 0 ELSE bytes[1] + 256 * LittleEndian(Tail(bytes), len - 1)

\* gmpy2.mpz_from_old_binary: least significant byte first, a trailing 0xff
\* byte marks a negative number
mpz_from_old_binary(bytes) ==
    IF Len(bytes) > 0 /\ bytes[Len(bytes)] = 255
    THEN 0 - LittleEndian(bytes, Len(bytes) - 1)
    ELSE LittleEndian(bytes, Len(bytes))

\* a column value is an SQL integer or an SQL text of hexadecimal digits
\* (insertElection writes the integer 0 into sum_total, incrementTallies a text;
\* the column is taken to keep the value as it was written)
IntVal(i) == [isInt |-> TRUE, int |-> i, hex |-> NullText]
TextVal(s) == [isInt |-> FALSE, int |-> 0, hex |-> s]

\* hexToMpz raises ValueError exactly when this is FALSE
hexToMpzOk(x) == x.isInt \/ FromHexOk(x.hex)
hexToMpz(x) == IF x.isInt THEN x.int ELSE mpz_from_old_binary(FromHex(x.hex))


(* ------------------------------- state --------------------------------- *)
VARIABLES
    db,         \* the SQLite store: tables ballots, receipts, choices, voters
    session,    \* per voter: the keys of the Flask session and the ballot_id
                \* of session['receipt']
    pc,         \* per voter: position of the request in flight
    newId,      \* per voter: the ballot_id getNewBallotID returned to firstReceipt
    rows,       \* per voter: the rows incrementTallies has fetched
    last,       \* the last cast, audit, confirm, download or incrementTallies
                \* that ended: [op, id (its ballot_id), out (how it ended)]
    clock,      \* datetime.now(), against the election's start and end time
    jsonFile,   \* the transcript file JSON_FOLDER/<election_id>.json
    allocated,  \* per ballot_id: number of ballot rows ever inserted under it
    faults,     \* number of storage statements that have raised
    counted,    \* per ballot_id: number of times incrementTallies added its
                \* rows to the tallies
    owner,      \* per ballot_id: the voter whose request inserted the ballot row
                \* (the store keeps no voter with a ballot)
    arg,        \* the arguments of the crypto.py function under test
    res         \* what the function returned for them

vars == <<db, session, pc, newId, rows, last, clock, jsonFile, allocated,
          faults, counted, owner, arg, res>>

(* --------------------------- Status.checkStatus ------------------------ *)
start_time == 1
end_time == 2

checkStatus(now) ==
    IF now < start_time THEN "PENDING"
    ELSE IF now >= start_time /\ now < end_time THEN "ONGOING"
    ELSE "CLOSED"

\* main.py compares the Status member with a string: Status.PENDING == "PENDING"
\* is False for every member of the Enum
StatusEqualsStr(status, str) == FALSE

(* ------------------------------ db.py ---------------------------------- *)
\* The store keys a ballot by ballot_id and a receipt by (ballot_id,
\* choice_index): an INSERT under a key that is taken raises.
BallotKeyTaken(d, id) == id \in DOMAIN d.ballots
ReceiptKeyTaken(d, id, index) == <<id, index>> \in DOMAIN d.receipts

Max(S) == CHOOSE x \in S : \A y \in S : y <= x

\* SELECT MAX(ballot_id) FROM ballots: 1 for the first ballot, else max + 1
getNewBallotID(d) ==
    IF DOMAIN d.ballots = {} THEN 1 ELSE Max(DOMAIN d.ballots) + 1

NewBallotRow(q) ==
    [question_id |-> q, was_audited |-> NULL, num |-> FALSE,
     stage1 |-> FALSE, stage2 |-> "NULL"]

\* DELETE FROM ballots WHERE ballot_id = ?  (the receipts table is not touched)
deleteBallot(d, id) ==
    [d EXCEPT !.ballots = [b \in (DOMAIN d.ballots) \ {id} |-> d.ballots[b]]]

\* every function below returns [db, ret]; ret = FALSE stands for None.
\* ok = FALSE: the statement raises (storage failure).
insertNewBallot(d, id, q, ok) ==
    IF ok /\ ~BallotKeyTaken(d, id)
    THEN [db |-> [d EXCEPT !.ballots =
                    [b \in (DOMAIN d.ballots) \cup {id} |->
                        IF b = id THEN NewBallotRow(q) ELSE d.ballots[b]]],
          ret |-> TRUE]
    ELSE [db |-> d, ret |-> FALSE]

insertReceipt(d, id, r, index, voted, ok) ==
    IF ok /\ ~ReceiptKeyTaken(d, id, index)
    THEN [db |-> [d EXCEPT !.receipts =
                    [k \in (DOMAIN d.receipts) \cup {<<id, index>>} |->
                        IF k = <<id, index>>
                        THEN [voted |-> IF voted THEN 1 ELSE 0, random_secret |-> r]
                        ELSE d.receipts[k]]],
          ret |-> TRUE]
    ELSE [db |-> deleteBallot(d, id), ret |-> FALSE]

\* an UPDATE ... WHERE ballot_id = ? of a missing row changes nothing and succeeds
UpdateBallot(d, id, field, value) ==
    IF id \in DOMAIN d.ballots
    THEN [d EXCEPT !.ballots[id] = [@ EXCEPT ![field] = value]]
    ELSE d

addNumProofs(d, id, ok) ==
    IF ok THEN [db |-> UpdateBallot(d, id, "num", TRUE), ret |-> TRUE]
    ELSE [db |-> deleteBallot(d, id), ret |-> FALSE]

\* updateVoteReceipt whose except branch returns None without deleteBallot
updateVoteReceiptKeepsBallot(d, id, state, first_stage, ok) ==
    IF ok
    THEN [db |-> IF first_stage THEN UpdateBallot(d, id, "stage1", TRUE)
                 ELSE UpdateBallot(d, id, "stage2", state),
          ret |-> TRUE]
    ELSE [db |-> d, ret |-> FALSE]

updateVoteReceipt(d, id, state, first_stage, ok) ==
    IF ok
    THEN [db |-> IF first_stage THEN UpdateBallot(d, id, "stage1", TRUE)
                 ELSE UpdateBallot(d, id, "stage2", state),
          ret |-> TRUE]
    ELSE [db |-> deleteBallot(d, id), ret |-> FALSE]

updateAuditBallot(d, id, audited, ok) ==
    IF ok
    THEN [db |-> UpdateBallot(d, id, "was_audited", IF audited THEN 1 ELSE 0),
          ret |-> TRUE]
    ELSE [db |-> deleteBallot(d, id), ret |-> FALSE]

\* SELECT DISTINCT random_secret, voted FROM receipts JOIN choices ON index_num
\* = choice_index WHERE ballot_id = ? : the set of (secret, voted) pairs; None
\* when there is no row or the query raises
getBallotData(d, id, ok) ==
    IF ok THEN {<<d.receipts[k].random_secret, d.receipts[k].voted>> :
                    k \in {x \in DOMAIN d.receipts : x[1] = id}}
    ELSE {}

deleteSecrets(d, id, ok) ==
    IF ok
    THEN [d EXCEPT !.receipts =
            [k \in DOMAIN d.receipts |->
                IF k[1] = id THEN [voted |-> NULL, random_secret |-> NullText]
                ELSE d.receipts[k]]]
    ELSE d


\* the SELECT of incrementTallies without "AND was_audited = 0"
IncSelectAnyBallot(d, id, ok) ==
    IF ok /\ id \in DOMAIN d.ballots
    THEN {[q_id |-> d.ballots[id].question_id, index |-> k[2],
           secret |-> d.receipts[k].random_secret, voted |-> d.receipts[k].voted,
           current_tally |-> d.choices[d.ballots[id].question_id][k[2]].tally_total,
           current_sum |-> d.choices[d.ballots[id].question_id][k[2]].sum_total] :
            k \in {x \in DOMAIN d.receipts : x[1] = id}}
    ELSE {}

\* incrementTallies, the SELECT: the receipts of the ballot joined with its
\* question's choices, only for a ballot with was_audited = 0; no row when the
\* query raises
IncSelect(d, id, ok) ==
    IF ok /\ id \in DOMAIN d.ballots /\ d.ballots[id].was_audited = 0
    THEN {[q_id |-> d.ballots[id].question_id, index |-> k[2],
           secret |-> d.receipts[k].random_secret, voted |-> d.receipts[k].voted,
           current_tally |-> d.choices[d.ballots[id].question_id][k[2]].tally_total,
           current_sum |-> d.choices[d.ballots[id].question_id][k[2]].sum_total] :
            k \in {x \in DOMAIN d.receipts : x[1] = id}}
    ELSE {}

\* bool(voted): NULL and 0 are False
Voted(row) == row.voted = 1

\* the row's new_sum can be computed (neither hexToMpz raises ValueError)
RowSumOk(row) == hexToMpzOk(row.current_sum) /\ hexToMpzOk(TextVal(row.secret))

\* the rows the loop updates: every voted row before the first that raises
\* (rows taken in index order); the except branch returns without commit and the
\* updates made so far are committed by the next commit on the connection
RowsUpdated(rs) ==
    {r \in rs : Voted(r) /\
        \A r2 \in rs : (Voted(r2) /\ r2.index <= r.index) => RowSumOk(r2)}

\* incrementTallies, the loop of UPDATEs over the fetched rows: the new values
\* are computed from the values the SELECT returned
IncUpdate(d, rs) ==
    [d EXCEPT !.choices =
        [q \in DOMAIN d.choices |-> [c \in DOMAIN d.choices[q] |->
            IF \E r \in RowsUpdated(rs) : r.q_id = q /\ r.index = c
            THEN LET r == CHOOSE r \in RowsUpdated(rs) : r.q_id = q /\ r.index = c
                 IN [tally_total |-> r.current_tally + 1,
                     sum_total |-> TextVal(hexStr(hexToMpz(r.current_sum)
                                           + hexToMpz(TextVal(r.secret))))]
            ELSE d.choices[q][c]]]]

incrementTallies(d, id, ok) == IncUpdate(d, IncSelect(d, id, ok))

nextQuestion(d, v, next_question) ==
    [d EXCEPT !.voters[v].current_question = next_question]

completeVoting(d, v) == [d EXCEPT !.voters[v].finished_voting = 1]

totalQuestions == NumQuestions

\* getJSONBallots: the rows hold 6 columns and the loop unpacks each into 10
\* names, so the first row raises ValueError and the function returns None;
\* without a row it returns the empty list
getJSONBallotsIsNone(d) ==
    {b \in DOMAIN d.ballots : d.ballots[b].was_audited # NULL} # {}

\* getChoiceTallies: choices[q_id] is {} and choices[q_id][index]['text'] = ..
\* raises KeyError on the first row, so the function returns None whenever the
\* election has a choice
getChoiceTalliesIsNone(d) ==
    \E q \in DOMAIN d.choices : DOMAIN d.choices[q] # {}

(* ----------------------------- helpers.py ------------------------------ *)
\* where a storage statement of one cast raises: 0 nowhere, 1 insertNewBallot,
\* 2 + i insertReceipt of choice i, NumChoices + 2 addNumProofs,
\* NumChoices + 3 updateVoteReceipt(first_stage=True)
CastFailPoints == 0..(NumChoices + 3)

RECURSIVE ReceiptLoop(_, _, _, _, _, _)
ReceiptLoop(d, id, index, choices, secret, failAt) ==
    IF index = NumChoices THEN [db |-> d, ret |-> TRUE]
    ELSE LET ins == insertReceipt(d, id, hexStr(secret[index]), index,
                                  index \in choices, failAt # 2 + index)
         IN IF ~ins.ret THEN ins
            ELSE ReceiptLoop(ins.db, id, index + 1, choices, secret, failAt)

\* firstReceipt after getNewBallotID: [db, ret, inserted]; inserted tells
\* whether insertNewBallot stored the ballot row
firstReceipt(d, id, q, choices, secret, failAt) ==
    LET nb == insertNewBallot(d, id, q, failAt # 1)
    IN IF ~nb.ret THEN [db |-> nb.db, ret |-> FALSE, inserted |-> FALSE]
       ELSE LET lp == ReceiptLoop(nb.db, id, 0, choices, secret, failAt)
            IN IF ~lp.ret THEN [db |-> lp.db, ret |-> FALSE, inserted |-> TRUE]
               ELSE LET np == addNumProofs(lp.db, id, failAt # NumChoices + 2)
                    IN [db |-> np.db, ret |-> np.ret, inserted |-> TRUE]

\* auditBallot: [db, ret]; the result of updateAuditBallot is not looked at
auditBallot(d, id, okData, okMark) ==
    IF getBallotData(d, id, okData) = {} THEN [db |-> d, ret |-> FALSE]
    ELSE [db |-> updateAuditBallot(d, id, TRUE, okMark).db, ret |-> TRUE]

\* helpers.py:344 assigns into old_receipt, a name bound nowhere in the module
OldReceiptIsBound == FALSE

\* confirmBallot with updateAuditBallot moved in front of the loop
confirmBallotMarksFirst(d, id, num_choices, okMark) ==
    [db |-> updateAuditBallot(d, id, FALSE, okMark).db, raised |-> TRUE]

\* confirmBallot: [db, raised].  With num_choices > 0 the first pass of the loop
\* raises NameError before updateAuditBallot; with num_choices = 0 the loop is
\* skipped, the ballot is marked, and `return old_receipt` raises
confirmBallot(d, id, num_choices, okMark) ==
    IF ~OldReceiptIsBound /\ num_choices > 0 THEN [db |-> d, raised |-> TRUE]
    ELSE [db |-> updateAuditBallot(d, id, FALSE, okMark).db,
          raised |-> ~OldReceiptIsBound]

\* makeElectionJson: the file after the call
NoFile == [exists |-> FALSE, ballots |-> 0]
makeElectionJson(d, file) ==
    IF file.exists THEN file
    ELSE IF getJSONBallotsIsNone(d) THEN file
    ELSE IF getChoiceTalliesIsNone(d) THEN file
    ELSE [exists |-> TRUE, ballots |-> 0]

\* verifyElectionJson on the file: open() raises when the file is missing; the
\* ballot loop raises KeyError at ballot['stage_1']['question_id'] on the first
\* ballot; the tally loop raises on the first choice (total_receipts is bound
\* nowhere)
verifyElectionJson(d, file) ==
    IF ~file.exists THEN "raised"
    ELSE IF file.ballots > 0 THEN "raised"
    ELSE IF \E q \in DOMAIN d.choices : DOMAIN d.choices[q] # {} THEN "raised"
    ELSE "True"


(* ------------------------------ sessions ------------------------------- *)
Stage1Keys == {"sign_1", "hash_1", "receipt"}
Stage2Keys == {"hash_2", "sign_2", "receipt_2"}
EmptySession == [keys |-> {}, bid |-> 0]

\* login_required / current_user: Flask-Login keeps the voter's id in the session
LoggedIn(v) == "_user_id" \in session[v].keys

\* helpers.clearSession pops every key of the session, the login included
clearSession == EmptySession

\* the checks without the test of current_user.voted
UserChecksIgnoresVoted(v) ==
    /\ LoggedIn(v)
    /\ ~StatusEqualsStr(checkStatus(clock), "PENDING")
    /\ ~StatusEqualsStr(checkStatus(clock), "CLOSED")

\* the checks voting and auditOrConfirm make on the user and the election before
\* anything else; the request is for the voter's current question.  The status is
\* compared with strings, so neither PENDING nor CLOSED turns the request away
UserChecks(v) ==
    /\ LoggedIn(v)
    /\ db.voters[v].finished_voting = 0
    /\ ~StatusEqualsStr(checkStatus(clock), "PENDING")
    /\ ~StatusEqualsStr(checkStatus(clock), "CLOSED")



(* ------------------------------- Init ---------------------------------- *)
\* the store after insertElection: no ballot, every tally and sum 0, every
\* voter at question 1 and not finished
insertElection ==
    [ballots |-> <<>>,
     receipts |-> <<>>,
     choices |-> [q \in Questions |-> [c \in Choices |->
                    [tally_total |-> 0, sum_total |-> IntVal(0)]]],
     voters |-> [v \in Voters |->
                    [current_question |-> 1, finished_voting |-> 0]]]

NoRequest == [op |-> "none", id |-> 0, out |-> "none"]
\* no request has inserted a row under the ballot_id
Nobody == "nobody"
\* no crypto.py function is under test
NoCall == [fn |-> "none"]

Init ==
    /\ db = insertElection
    /\ session = [v \in Voters |-> EmptySession]
    /\ pc = [v \in Voters |-> "idle"]
    /\ newId = [v \in Voters |-> 0]
    /\ rows = [v \in Voters |-> {}]
    /\ last = NoRequest
    /\ clock = 0
    /\ jsonFile = NoFile
    /\ allocated = [i \in Ids |-> 0]
    /\ faults = 0
    /\ counted = [i \in Ids |-> 0]
    /\ owner = [i \in Ids |-> Nobody]
    /\ arg = NoCall
    /\ res = NoCall

(* ------------------------------ actions -------------------------------- *)
RECURSIVE SumTo(_, _)
SumTo(f, i) == IF i = 0 THEN 0 ELSE f[i] + SumTo(f, i - 1)
\* ballot rows inserted so far
Inserted == SumTo(allocated, MaxCasts)

\* a statement may raise in this request only while faults < MaxFaults
MayFail(failAt) == failAt # 0 => faults < MaxFaults
Raised(failAt) == IF failAt # 0 THEN faults + 1 ELSE faults

\* time passes: PENDING -> ONGOING -> CLOSED
Tick ==
    /\ clock < end_time
    /\ clock' = clock + 1
    /\ UNCHANGED <<arg, res, owner, db, session, pc, newId, rows, last, jsonFile, allocated,
                   faults, counted>>

\* voteLogin: only while the election is ONGOING (status.name is compared)
voteLogin(v) ==
    /\ pc[v] = "idle"
    /\ checkStatus(clock) = "ONGOING"
    /\ ~LoggedIn(v)
    /\ session' = [session EXCEPT ![v].keys = @ \cup {"_user_id"}]
    /\ UNCHANGED <<arg, res, owner, db, pc, newId, rows, last, clock, jsonFile, allocated,
                   faults, counted>>

\* voting, POST of a valid form, up to firstReceipt's getNewBallotID
CastStart(v) ==
    /\ pc[v] = "idle"
    /\ UserChecks(v)
    /\ db.voters[v].current_question \in Questions
    /\ getNewBallotID(db) \in Ids
    /\ Inserted + Cardinality({w \in Voters : pc[w] = "cast"}) < MaxCasts
    /\ pc' = [pc EXCEPT ![v] = "cast"]
    /\ newId' = [newId EXCEPT ![v] = getNewBallotID(db)]
    /\ UNCHANGED <<arg, res, owner, db, session, rows, last, clock, jsonFile, allocated,
                   faults, counted>>

\* voting, the rest of firstReceipt and the stage-1 hash and signature
CastFinish(v) ==
    /\ pc[v] = "cast"
    /\ \E choices \in {c \in SUBSET Choices : Cardinality(c) = max_answers},
          secret \in [Choices -> SecretSet],
          failAt \in CastFailPoints :
        /\ MayFail(failAt)
        /\ faults' = Raised(failAt)
        /\ LET id == newId[v]
               fr == firstReceipt(db, id, db.voters[v].current_question,
                                  choices, secret, failAt)
               up == updateVoteReceipt(fr.db, id, "NULL", TRUE,
                                       failAt # NumChoices + 3)
           IN /\ allocated' = [allocated EXCEPT
                                   ![id] = IF fr.inserted THEN @ + 1 ELSE @]
              /\ owner' = [owner EXCEPT ![id] = IF fr.inserted THEN v ELSE @]
              /\ IF ~fr.ret
                 THEN /\ db' = fr.db
                      /\ session' = session
                      /\ last' = [op |-> "cast", id |-> id, out |-> "failed"]
                 ELSE /\ db' = up.db
                      /\ session' = [session EXCEPT ![v] =
                               [keys |-> @.keys \cup Stage1Keys, bid |-> id]]
                      /\ last' = [op |-> "cast", id |-> id,
                                  out |-> IF up.ret THEN "ok" ELSE "unsigned"]
    /\ pc' = [pc EXCEPT ![v] = "idle"]
    /\ newId' = [newId EXCEPT ![v] = 0]
    /\ UNCHANGED <<arg, res, rows, clock, jsonFile, counted>>

\* auditOrConfirm without the stage-1 keys in the session: clearSession
BadSession(v) ==
    /\ pc[v] = "idle"
    /\ UserChecks(v)
    /\ ~(Stage1Keys \subseteq session[v].keys)
    /\ session' = [session EXCEPT ![v] = clearSession]
    /\ UNCHANGED <<arg, res, owner, db, pc, newId, rows, last, clock, jsonFile, allocated,
                   faults, counted>>

\* auditOrConfirm, form with audit and not confirm (main.py:408-432).
\* failAt: 0 nothing raises, 1 getBallotData, 2 updateAuditBallot,
\* 3 updateVoteReceipt(first_stage=False)
Audit(v) ==
    /\ pc[v] = "idle"
    /\ UserChecks(v)
    /\ Stage1Keys \subseteq session[v].keys
    /\ \E failAt \in 0..3 :
        /\ MayFail(failAt)
        /\ faults' = Raised(failAt)
        /\ LET id == session[v].bid
               ab == auditBallot(db, id, failAt # 1, failAt # 2)
               up == updateVoteReceipt(ab.db, id, "AUDITED", FALSE, failAt # 3)
           IN IF ~ab.ret
              THEN /\ db' = ab.db
                   /\ session' = session
                   /\ last' = [op |-> "audit", id |-> id, out |-> "nodata"]
              ELSE /\ db' = up.db
                   /\ session' = [session EXCEPT ![v].keys =
                           @ \cup Stage2Keys \cup
                             (IF up.ret THEN {"choices"} ELSE {})]
                   /\ last' = [op |-> "audit", id |-> id,
                               out |-> IF up.ret THEN "ok" ELSE "failed"]
    /\ UNCHANGED <<arg, res, owner, pc, newId, rows, clock, jsonFile, allocated, counted>>

\* auditOrConfirm, form with confirm and not audit (main.py:434-460).
\* failAt: 0 nothing raises, 1 updateAuditBallot, 2 incrementTallies' SELECT,
\* 3 deleteSecrets, 4 updateVoteReceipt(first_stage=False).
\* When confirmBallot raises the request ends there (HTTP 500).
Confirm(v) ==
    /\ pc[v] = "idle"
    /\ UserChecks(v)
    /\ Stage1Keys \subseteq session[v].keys
    /\ \E failAt \in 0..4 :
        /\ MayFail(failAt)
        /\ LET id == session[v].bid
               cb == confirmBallot(db, id, NumChoices, failAt # 1)
               sel == IncSelect(cb.db, id, failAt # 2)
               inc == IncUpdate(cb.db, sel)
               del == deleteSecrets(inc, id, failAt # 3)
               next == db.voters[v].current_question + 1
               nq == nextQuestion(del, v, next)
               up == updateVoteReceipt(nq, id, "CONFIRMED", FALSE, failAt # 4)
           IN IF cb.raised
              THEN /\ db' = cb.db
                   /\ session' = session
                   /\ counted' = counted
                   /\ faults' = faults
                   /\ last' = [op |-> "confirm", id |-> id, out |-> "raised"]
              ELSE /\ faults' = Raised(failAt)
                   /\ counted' = [i \in Ids |->
                           IF i = id /\ RowsUpdated(sel) # {}
                           THEN counted[i] + 1 ELSE counted[i]]
                   /\ IF ~up.ret
                      THEN /\ db' = up.db
                           /\ session' = [session EXCEPT ![v].keys =
                                               @ \cup Stage2Keys]
                           /\ last' = [op |-> "confirm", id |-> id,
                                       out |-> "failed"]
                      ELSE /\ db' = IF next > totalQuestions
                                    THEN completeVoting(up.db, v) ELSE up.db
                           /\ session' = [session EXCEPT ![v].keys =
                                               (@ \cup Stage2Keys) \ {"sign_1"}]
                           /\ last' = [op |-> "confirm", id |-> id, out |-> "ok"]
    /\ UNCHANGED <<arg, res, owner, pc, newId, rows, clock, jsonFile, allocated>>

\* auditOrConfirm whose first branch tests form.audit.data alone: a form with
\* both buttons is handled as an audit
NoChoiceAudits(v) == Audit(v)

\* auditOrConfirm, form with both buttons or neither: the page is shown again
NoChoice(v) ==
    /\ pc[v] = "idle"
    /\ UserChecks(v)
    /\ Stage1Keys \subseteq session[v].keys
    /\ UNCHANGED vars

\* showBallot, POST: the receipts are dropped from the session
showBallot(v) ==
    /\ pc[v] = "idle"
    /\ LoggedIn(v)
    /\ (Stage2Keys \cup {"hash_1", "receipt"}) \subseteq session[v].keys
    /\ session' = [session EXCEPT ![v] =
            [keys |-> @.keys \ (Stage2Keys \cup {"hash_1", "receipt", "choices"}),
             bid |-> 0]]
    /\ UNCHANGED <<arg, res, owner, db, pc, newId, rows, last, clock, jsonFile, allocated,
                   faults, counted>>

\* download: only for a CLOSED election; makeElectionJson returns True or False,
\* never None, so send_from_directory is reached whether or not a file exists
download ==
    /\ checkStatus(clock) = "CLOSED"
    /\ jsonFile' = makeElectionJson(db, jsonFile)
    /\ last' = [op |-> "download", id |-> 0,
                out |-> IF jsonFile'.exists THEN "sent" ELSE "not_found"]
    /\ UNCHANGED <<arg, res, owner, db, session, pc, newId, rows, clock, allocated, faults,
                   counted>>

Next ==
    \/ Tick
    \/ download
    \/ \E v \in Voters :
        \/ voteLogin(v)
        \/ CastStart(v)
        \/ CastFinish(v)
        \/ BadSession(v)
        \/ Audit(v)
        \/ Confirm(v)
        \/ NoChoice(v)
        \/ showBallot(v)

Spec == Init /\ [][Next]_vars

(* ------------------- incrementTallies, two connections ----------------- *)
\* the ballot each voter's request is about
BallotOf(v) == IF v = "v1" THEN 1 ELSE 2

\* the store after voting has stored a ballot completely (nothing raised)
CastDone(d, id, q, choices, secret) ==
    updateVoteReceipt(firstReceipt(d, id, q, choices, secret, 0).db,
                      id, "NULL", TRUE, TRUE).db

\* the statement confirmBallot ends with (helpers.py:346)
MarkConfirmed(d, id) == updateAuditBallot(d, id, FALSE, TRUE).db

\* both voters have cast a ballot of question 1 and updateAuditBallot(audited=
\* False) has marked both; no tally has been touched
InitTally ==
    /\ \E c1, c2 \in {c \in SUBSET Choices : Cardinality(c) = max_answers},
          s1, s2 \in [Choices -> SecretSet] :
        db = MarkConfirmed(MarkConfirmed(
                CastDone(CastDone(insertElection, 1, 1, c1, s1), 2, 1, c2, s2),
                1), 2)
    /\ session = [v \in Voters |->
                    [keys |-> {"_user_id"} \cup Stage1Keys, bid |-> BallotOf(v)]]
    /\ pc = [v \in Voters |-> "idle"]
    /\ newId = [v \in Voters |-> 0]
    /\ rows = [v \in Voters |-> {}]
    /\ last = NoRequest
    /\ clock = start_time
    /\ jsonFile = NoFile
    /\ allocated = [i \in Ids |-> IF i <= 2 THEN 1 ELSE 0]
    /\ faults = 0
    /\ counted = [i \in Ids |-> 0]
    /\ owner = [i \in Ids |-> IF i = 1 THEN "v1" ELSE IF i = 2 THEN "v2" ELSE Nobody]
    /\ arg = NoCall
    /\ res = NoCall

\* incrementTallies(ballot_id) up to fetchall()
TallySelect(v) ==
    /\ pc[v] = "idle"
    /\ rows' = [rows EXCEPT ![v] = IncSelect(db, session[v].bid, TRUE)]
    /\ pc' = [pc EXCEPT ![v] = "inc"]
    /\ UNCHANGED <<arg, res, owner, db, session, newId, last, clock, jsonFile, allocated, faults,
                   counted>>

\* incrementTallies(ballot_id), the loop of UPDATEs and the commit
TallyUpdate(v) ==
    /\ pc[v] = "inc"
    /\ db' = IncUpdate(db, rows[v])
    /\ counted' = [counted EXCEPT ![session[v].bid] =
                        IF RowsUpdated(rows[v]) # {} THEN @ + 1 ELSE @]
    /\ rows' = [rows EXCEPT ![v] = {}]
    /\ pc' = [pc EXCEPT ![v] = "done"]
    /\ last' = [op |-> "tally", id |-> session[v].bid, out |-> "done"]
    /\ UNCHANGED <<arg, res, owner, session, newId, clock, jsonFile, allocated, faults>>

NextTally == \E v \in Voters : TallySelect(v) \/ TallyUpdate(v)

SpecTally == InitTally /\ [][NextTally]_vars

(* ------------------------------ properties ----------------------------- *)
HasBallot(id) == id \in DOMAIN db.ballots
\* the ballot's row is marked audited / confirmed (was_audited = 1 / 0)
AUDITED(id) == HasBallot(id) /\ db.ballots[id].was_audited = 1
CONFIRMED(id) == HasBallot(id) /\ db.ballots[id].was_audited = 0
ReceiptsOf(id) == {k \in DOMAIN db.receipts : k[1] = id}
\* the last request that ended was a confirm of a ballot that is in the store
\* and was not audited
ConfirmHandled == last.op = "confirm" /\ HasBallot(last.id) /\ ~AUDITED(last.id)

\* int(s, 16) of a string of hexadecimal digits
RECURSIVE HexValue(_)
HexValue(s) ==
    IF Len(s) = 0 THEN 0
    ELSE 16 * HexValue(SubSeq(s, 1, Len(s) - 1)) + s[Len(s)]

C2_ConfirmCountsOnce ==
    ConfirmHandled => (CONFIRMED(last.id) /\ counted[last.id] = 1)

\* C3: the audit request leaves tally_total and sum_total of every choice as
\* they were, and for an AUDITED ballot incrementTallies selects no row, so a
\* call on it changes no tally and the ballot is never counted.
C3_AuditLeavesTallies ==
    [][/\ \A v \in Voters : Audit(v) => db'.choices = db.choices
       /\ \A id \in Ids : AUDITED(id) =>
            /\ incrementTallies(db, id, TRUE).choices = db.choices
            /\ counted'[id] = counted[id]]_vars

\* a ballot the audit request has just marked AUDITED, with a voted receipt
C3_Witness ==
    /\ last.op = "audit" /\ last.out = "ok" /\ AUDITED(last.id)
    /\ \E k \in ReceiptsOf(last.id) : db.receipts[k].voted = 1

\* C4: once a confirm request has been handled for a ballot, random_secret and
\* voted of every receipt of that ballot are NULL in the store.
C4_ConfirmDeletesSecrets ==
    ConfirmHandled =>
        \A k \in ReceiptsOf(last.id) :
            /\ db.receipts[k].random_secret = NullText
            /\ db.receipts[k].voted = NULL

C6_DistinctIds ==
    \A v, w \in Voters :
        (v # w /\ pc[v] = "cast" /\ pc[w] = "cast") => newId[v] # newId[w]

\* C7: no ballot_id is given to a second ballot row: an id under which a row was
\* inserted once is never inserted again, also after deleteBallot removed it.
C7_NoReuse == \A id \in Ids : allocated[id] <= 1

\* C8: after a cast that failed (firstReceipt returned None, or the stage-1
\* hash and signature could not be stored) neither a ballot row nor a receipt
\* row of its ballot_id is in the store.
C8_FailedCastLeavesNothing ==
    (last.op = "cast" /\ last.out # "ok")
        => (~HasBallot(last.id) /\ ReceiptsOf(last.id) = {})

C10_TranscriptVerifies ==
    (/\ last.op = "download" /\ faults = 0
     /\ DOMAIN db.ballots # {}
     /\ \A id \in DOMAIN db.ballots : db.ballots[id].was_audited # NULL)
    => (jsonFile.exists /\ verifyElectionJson(db, jsonFile) = "True")


(* ------------------- crypto.py: the group and the proofs ---------------- *)
\* The curve group is cyclic of prime order n.  A point k * g1 is written as
\* k mod n, INFINITY as 0; the order is reduced to a small prime.
n == 5
\* the first generator
g1 == 1
\* the second generator generatePair derives from the election id
g2 == 2
Points == 0..(n - 1)
INFINITY == 0
\* Point + Point
PointAdd(P, Q) == (P + Q) % n
\* -Point
PointNeg(P) == (n - P) % n
\* Point * integer, the integer not negative
PointMul(P, k) == (P * (k % n)) % n

\* generateRandSecret: an integer of [1, n-1]
Secrets == 1..(n - 1)
generateR(gen_2, r) == PointMul(gen_2, r)
generateZ(r, v) == PointMul(g1, r + v)

\* SHA-512 over str(tuple of the points' byte strings), read as an integer.
\* It is modelled free of collisions: the points are the digits of a number
\* to the base n, the first point the most significant.  The question id is
\* the same string in every call of one election and is left out.
RECURSIVE Digest(_)
Digest(points) ==
    IF Len(points) = 0 THEN 0
    ELSE n * Digest(SubSeq(points, 1, Len(points) - 1)) + points[Len(points)]

proofZKHash(p1, G_1, p2, G_2, p3, G_3, p4, G_4, t_1, t_2, t_3, t_4) ==
    Digest(<<p1, G_1, p2, G_2, p3, G_3, p4, G_4, t_1, t_2, t_3, t_4>>)

abs(x) == IF x < 0 THEN 0 - x ELSE x

\* generateZKProof; w, r_2 and c_2 are the three values it draws with
\* generateRandSecret.  It returns four strings hex(..)[2:].
generateZKProof(gen_2, R, Z, r, w, r_2, c_2) ==
    LET G_1 == PointAdd(Z, PointNeg(g1))
        G_2 == R
        G_3 == Z
        G_4 == R
        g3 == g1
        g4 == gen_2
        t_1 == PointMul(g1, w)
        t_2 == PointMul(gen_2, w)
        t_3 == PointAdd(PointMul(g1, r_2), PointMul(G_3, c_2))
        t_4 == PointAdd(PointMul(gen_2, r_2), PointMul(G_4, c_2))
        c == proofZKHash(g1, G_1, gen_2, G_2, g3, G_3, g4, G_4, t_1, t_2, t_3, t_4)
        c_1 == abs(c - c_2)
    IN  [c_1 |-> hexStr(c_1), c_2 |-> hexStr(c_2),
         r_1 |-> hexStr(abs(w - (c_1 * r))), r_2 |-> hexStr(r_2)]

\* verifyZKProof: t_3 and t_4 are computed with G_1 and G_2
verifyZKProof(gen_1, gen_2, R, Z, proof_c1, proof_c2, proof_r1, proof_r2) ==
    LET G_1 == PointAdd(Z, PointNeg(gen_1))
        G_2 == R
        G_3 == Z
        G_4 == R
        g3 == gen_1
        g4 == gen_2
        t_1 == PointAdd(PointMul(gen_1, proof_r1), PointMul(G_1, proof_c1))
        t_2 == PointAdd(PointMul(gen_2, proof_r1), PointMul(G_2, proof_c1))
        t_3 == PointAdd(PointMul(gen_1, proof_r2), PointMul(G_1, proof_c2))
        t_4 == PointAdd(PointMul(gen_2, proof_r2), PointMul(G_2, proof_c2))
        c_prime == proofZKHash(gen_1, G_1, gen_2, G_2, g3, G_3, g4, G_4,
                               t_1, t_2, t_3, t_4)
    IN  (proof_c1 + proof_c2) = c_prime

(* ---- SpecZK: generateZKProof and verifyZKProof on one cryptogram ------- *)
\* the store, the sessions and the requests stay as insertElection left them
Idle ==
    UNCHANGED <<db, session, pc, newId, rows, last, clock, jsonFile, allocated,
                faults, counted, owner>>

InitIdle ==
    /\ db = insertElection
    /\ session = [v \in Voters |-> EmptySession]
    /\ pc = [v \in Voters |-> "idle"]
    /\ newId = [v \in Voters |-> 0]
    /\ rows = [v \in Voters |-> {}]
    /\ last = NoRequest
    /\ clock = start_time
    /\ jsonFile = NoFile
    /\ allocated = [i \in Ids |-> 0]
    /\ faults = 0
    /\ counted = [i \in Ids |-> 0]
    /\ owner = [i \in Ids |-> Nobody]

InitZK ==
    /\ InitIdle
    /\ \E r \in Secrets, voted \in {0, 1} :
        arg = [fn |-> "generateZKProof", r |-> r, voted |-> voted,
               R |-> generateR(g2, r), Z |-> generateZ(r, voted)]
    /\ res = NoCall

\* firstReceipt's call generateZKProof(question_id, gen_2, R, Z, r)
ProveZK ==
    /\ res.fn = "none"
    /\ \E w \in Secrets, r_2 \in Secrets, c_2 \in Secrets :
        res' = [fn |-> "generateZKProof",
                proof |-> generateZKProof(g2, arg.R, arg.Z, arg.r, w, r_2, c_2)]
    /\ UNCHANGED arg
    /\ Idle

\* verifyZKProof on the same generators, R and Z, the four proof values read
\* as the hexadecimal numbers they were written as
VerifyZK ==
    /\ res.fn = "generateZKProof"
    /\ res' = [fn |-> "verifyZKProof", proof |-> res.proof,
               ret |-> verifyZKProof(g1, g2, arg.R, arg.Z,
                                     HexValue(res.proof.c_1), HexValue(res.proof.c_2),
                                     HexValue(res.proof.r_1), HexValue(res.proof.r_2))]
    /\ UNCHANGED arg
    /\ Idle

NextZK == ProveZK \/ VerifyZK

SpecZK == InitZK /\ [][NextZK]_vars

\* C11: for voted in {0, 1} and r in [1, n-1], the proof generateZKProof
\* returns for (R, Z) = (r * gen_2, (r + voted) * g1) is accepted by
\* verifyZKProof called with the same generators, R and Z.
C11_ZKProofAccepted ==
    res.fn = "verifyZKProof" => res.ret = TRUE


(* ---- SpecNum: generateNumProof and verifyNumProof on one ballot -------- *)
proofNumHash(p1, G_1, p2, G_2, t_1, t_2) ==
    Digest(<<p1, G_1, p2, G_2, t_1, t_2>>)

RECURSIVE pointSum(_)
pointSum(point_list) ==
    IF Len(point_list) = 0 THEN INFINITY
    ELSE PointAdd(pointSum(SubSeq(point_list, 1, Len(point_list) - 1)),
                  point_list[Len(point_list)])

\* sum() of a list of integers
RECURSIVE sum(_)
sum(list) == IF Len(list) = 0 THEN 0 ELSE list[1] + sum(Tail(list))

\* generateNumProof; w is the value it draws with generateRandSecret.
\* It returns two strings hex(..)[2:].
generateNumProof(gen_2, R_list, Z_list, r_list, num_choices, w) ==
    LET t_1 == PointMul(g1, w)
        t_2 == PointMul(gen_2, w)
        G_1 == PointAdd(pointSum(Z_list), PointMul(PointNeg(g1), num_choices))
        G_2 == pointSum(R_list)
        c == proofNumHash(g1, G_1, gen_2, G_2, t_1, t_2)
    IN  [c |-> hexStr(c), r |-> hexStr(abs(w - (c * sum(r_list))))]

\* the return statement of verifyNumProof reads t1 and t2; the function binds
\* t_1 and t_2, and the module has no global of either name
NumProofNamesBound == FALSE

\* verifyNumProof: "NameError" when it raises, else the boolean it returns
verifyNumProof(gen_1, gen_2, R_list, Z_list, proof_c, proof_r, num_choices) ==
    LET G_1 == PointAdd(pointSum(Z_list), PointMul(PointNeg(gen_1), num_choices))
        G_2 == pointSum(R_list)
        t_1 == PointAdd(PointMul(gen_1, proof_r), PointMul(G_1, proof_c))
        t_2 == PointAdd(PointMul(gen_2, proof_r), PointMul(G_2, proof_c))
    IN  IF ~NumProofNamesBound THEN "NameError"
        ELSE IF proof_c = proofNumHash(gen_1, G_1, gen_2, G_2, t_1, t_2)
             THEN "True" ELSE "False"

\* the ballots firstReceipt makes: one secret per choice, exactly max_answers
\* choices voted
BallotSecrets == [1..NumChoices -> Secrets]
BallotVotes ==
    {v \in [1..NumChoices -> {0, 1}] : sum(v) = max_answers}

InitNum ==
    /\ InitIdle
    /\ \E r_list \in BallotSecrets, voted \in BallotVotes,
          k \in {max_answers, NumChoices} :
        arg = [fn |-> "generateNumProof", r_list |-> r_list, voted |-> voted,
               R_list |-> [i \in 1..NumChoices |-> generateR(g2, r_list[i])],
               Z_list |-> [i \in 1..NumChoices |-> generateZ(r_list[i], voted[i])],
               num_choices |-> k]
    /\ res = NoCall

\* generateNumProof(question_id, gen_2, R_list, Z_list, r_list, num_choices);
\* firstReceipt passes len(question.choices) as num_choices
ProveNum ==
    /\ res.fn = "none"
    /\ \E w \in Secrets :
        res' = [fn |-> "generateNumProof",
                proof |-> generateNumProof(g2, arg.R_list, arg.Z_list, arg.r_list,
                                           arg.num_choices, w)]
    /\ UNCHANGED arg
    /\ Idle

\* verifyNumProof on the same lists with k = max_answers, the two proof values
\* read as the hexadecimal numbers they were written as
VerifyNum ==
    /\ res.fn = "generateNumProof"
    /\ res' = [fn |-> "verifyNumProof", proof |-> res.proof,
               ret |-> verifyNumProof(g1, g2, arg.R_list, arg.Z_list,
                                      HexValue(res.proof.c), HexValue(res.proof.r),
                                      max_answers)]
    /\ UNCHANGED arg
    /\ Idle

NextNum == ProveNum \/ VerifyNum

SpecNum == InitNum /\ [][NextNum]_vars

\* C12: for a ballot with exactly k = max_answers of its choices voted, the
\* proof generateNumProof returns with num_choices = k is accepted by
\* verifyNumProof called on the same R and Z lists with k.
C12_NumProofAccepted ==
    (res.fn = "verifyNumProof" /\ arg.num_choices = max_answers)
        => res.ret = "True"


(* ---- SpecSum: confirmations one after the other, secrets of any length -- *)
\* secrets whose hex() has an odd number of digits (7), one byte (18) and two
\* bytes (4660 = 0x1234, 52224 = 0xcc00); generateRandSecret returns up to
\* 32 bytes
WideSecrets == {7, 18, 4660, 52224}

\* as InitTally, the secrets drawn from WideSecrets
InitSum ==
    /\ \E c1, c2 \in {c \in SUBSET Choices : Cardinality(c) = max_answers},
          s1, s2 \in [Choices -> WideSecrets] :
        db = MarkConfirmed(MarkConfirmed(
                CastDone(CastDone(insertElection, 1, 1, c1, s1), 2, 1, c2, s2),
                1), 2)
    /\ session = [v \in Voters |->
                    [keys |-> {"_user_id"} \cup Stage1Keys, bid |-> BallotOf(v)]]
    /\ pc = [v \in Voters |-> "idle"]
    /\ newId = [v \in Voters |-> 0]
    /\ rows = [v \in Voters |-> {}]
    /\ last = NoRequest
    /\ clock = start_time
    /\ jsonFile = NoFile
    /\ allocated = [i \in Ids |-> IF i <= 2 THEN 1 ELSE 0]
    /\ faults = 0
    /\ counted = [i \in Ids |-> 0]
    /\ owner = [i \in Ids |-> IF i = 1 THEN "v1" ELSE IF i = 2 THEN "v2" ELSE Nobody]
    /\ arg = NoCall
    /\ res = NoCall

\* incrementTallies(ballot_id) from the SELECT to the commit, no other request
\* in between
TallyWhole(v) ==
    /\ pc[v] = "idle"
    /\ db' = incrementTallies(db, session[v].bid, TRUE)
    /\ counted' = [counted EXCEPT ![session[v].bid] =
                    IF RowsUpdated(IncSelect(db, session[v].bid, TRUE)) # {}
                    THEN @ + 1 ELSE @]
    /\ pc' = [pc EXCEPT ![v] = "done"]
    /\ last' = [op |-> "tally", id |-> session[v].bid, out |-> "done"]
    /\ UNCHANGED <<arg, res, owner, session, newId, rows, clock, jsonFile, allocated,
                   faults>>

NextSum == \E v \in Voters : TallyWhole(v)

SpecSum == InitSum /\ [][NextSum]_vars

\* the secrets r of the ballots whose confirmation has been tallied and that
\* voted for choice c of question 1, added as integers
RECURSIVE SecretSum(_, _)
SecretSum(voters, c) ==
    IF voters = {} THEN 0
    ELSE LET v == CHOOSE x \in voters : TRUE
             k == <<BallotOf(v), c>>
         IN (IF pc[v] = "done" /\ db.receipts[k].voted = 1
             THEN HexValue(db.receipts[k].random_secret) ELSE 0)
            + SecretSum(voters \ {v}, c)

MaxBallots == 2

\* ballot['state']; any value but the first two is an invalid state
BallotStates == {"AUDITED", "CONFIRMED", "SPOILED"}

\* what a ballot of the transcript looks like:
\*  "exported" as getJSONBallots builds it: stage_1 holds hash, sign and data
\*  "object"   stage_1 holds question_id as well, data is a JSON object
\*  "string"   stage_1 holds question_id as well, data is a JSON string
Shapes == {"exported", "object", "string"}

\* how the first receipt of a ballot differs from what firstReceipt computed:
\*  "R", "Z"  the point is moved by g1, so the revealed secret and vote of the
\*            receipt no longer fit it
\*  "hex"     c_1 has an odd number of digits
\*  "empty"   the ballot lists no receipt at all
Tampers == {"none", "R", "Z", "hex", "empty"}

Ballots == [state : BallotStates, shape : Shapes, tamper : Tampers]

\* the secret of the receipt of choice i
SecretOf(i) == i + 1
\* every ballot of the transcript voted for choice 0
VotedOf(ballot, i) == IF i = 0 THEN 1 ELSE 0
Moved(P, yes) == IF yes THEN PointAdd(P, g1) ELSE P
ReceiptR(ballot, i) ==
    Moved(generateR(g2, SecretOf(i)), ballot.tamper = "R" /\ i = 0)
ReceiptZ(ballot, i) ==
    Moved(generateZ(SecretOf(i), VotedOf(ballot, i)), ballot.tamper = "Z" /\ i = 0)
\* hexToMpz of one of the receipt's proof values raises ValueError
ReceiptUnparsable(ballot, i) == ballot.tamper = "hex" /\ i = 0
\* the receipts ballot['choices'] lists, in choice-index order
ReceiptCount(ballot) == IF ballot.tamper = "empty" THEN 0 ELSE NumChoices

\* the published sum s of a choice: the integer 0, a hexadecimal text, a text
\* hexToMpz cannot read
PublishedSums == {IntVal(0), TextVal(hexStr(18)), TextVal(hexStr(7))}

Transcripts ==
    [key_ok : BOOLEAN,      \* bytestrToVKey(json_data['public_key']) returns
     hash_ok : BOOLEAN,     \* json_data['hash'] is the hash of election_data
     sign_ok : BOOLEAN,     \* json_data['sign'] is a signature of that hash
     id_ok : {TRUE},        \* election_data['election_id'] is the expected id
                            \* (the file is the one of the election asked for)
     ballots : UNION {[1..k -> Ballots] : k \in 0..MaxBallots},
     s : PublishedSums,     \* questions[..]['choices'][..]['s'], every choice
     t : {0, 1}]            \* questions[..]['choices'][..]['t'], every choice

\* the function with stage_1 a dictionary and total_receipts bound
UsableAll == {}
\* names verifyElectionJson reads that cannot be used as it reads them:
\*  "stage_1"         is the str json.dumps returns, stage_1['c_1'] raises
\*                    TypeError
\*  "total_receipts"  is bound nowhere (the dictionary is named tally_dict)
Unusable == {"stage_1", "total_receipts"}

\* tally_dict: per choice the sums of R and of Z, INFINITY at first
NoSums == [c \in Choices |-> [R |-> INFINITY, Z |-> INFINITY]]

Raise(st, name) == [st EXCEPT !.exc = name]

\* one pass of the loop over ballot['choices'] (lines 356-409), b the position
\* of the ballot in the transcript.  current_question is bound nowhere, so a
\* pass that gets through the try block to line 378 raises NameError there;
\* the statements behind it run only after the except branch.
verifyReceipt(st, ballot, b, audited, i) ==
    IF "stage_1" \in Unusable THEN Raise(st, "TypeError")
    ELSE IF ReceiptUnparsable(ballot, i)
    THEN \* except ValueError; then "if audited:" reads gen_2, which no pass
         \* has bound; without it has_gens = False skips verifyZKProof
         IF audited = "True" THEN Raise(st, "NameError")
         ELSE [st EXCEPT !.valid = FALSE, !.good_points = FALSE]
    ELSE IF audited = "True" THEN Raise(st, "NameError")
    ELSE IF "total_receipts" \in Unusable THEN Raise(st, "NameError")
    ELSE Raise([st EXCEPT
                    !.total_receipts[i] =
                        [R |-> PointAdd(@.R, ReceiptR(ballot, i)),
                         Z |-> PointAdd(@.Z, ReceiptZ(ballot, i))],
                    !.contributed = @ \cup {b}],
               "NameError")

RECURSIVE verifyReceipts(_, _, _, _, _)
verifyReceipts(st, ballot, b, audited, i) ==
    IF st.exc # "none" \/ i = ReceiptCount(ballot) THEN st
    ELSE verifyReceipts(verifyReceipt(st, ballot, b, audited, i),
                        ballot, b, audited, i + 1)

\* one pass of the loop over the ballots (lines 311-417)
verifyBallot(st, ballot, b) ==
    IF ballot.shape = "exported" THEN Raise(st, "KeyError")
    ELSE LET audited == IF ballot.state = "AUDITED" THEN "True"
                        ELSE IF ballot.state = "CONFIRMED" THEN "False"
                        ELSE "None"
             st1 == IF audited = "None" THEN [st EXCEPT !.valid = FALSE] ELSE st
         IN \* hashString(data): bytes(data, 'utf-8') takes a str only
            IF ballot.shape = "object" THEN Raise(st1, "TypeError")
            ELSE LET st2 == verifyReceipts(st1, ballot, b, audited, 0)
                 IN IF st2.exc # "none" THEN st2
                    \* verifyNumProof(ballot['question_id'], gen_1, ..): the
                    \* ballot has no such key, gen_1 is not bound, and the
                    \* function itself raises NameError
                    ELSE IF st2.good_points THEN Raise(st2, "NameError")
                    ELSE st2

RECURSIVE verifyBallots(_, _, _)
verifyBallots(st, ballots, b) ==
    IF st.exc # "none" \/ b > Len(ballots) THEN st
    ELSE verifyBallots(verifyBallot(st, ballots[b], b), ballots, b + 1)

\* one pass of the loop over a question's choices (lines 425-435)
verifyChoice(st, json_data, c) ==
    IF ~hexToMpzOk(json_data.s) THEN Raise(st, "ValueError")
    ELSE IF "total_receipts" \in Unusable THEN Raise(st, "NameError")
    ELSE LET s == hexToMpz(json_data.s)
             t == json_data.t
         IN [st EXCEPT !.valid =
                /\ @
                /\ PointMul(g2, s) = st.total_receipts[c].R
                /\ PointMul(g1, s + t) = st.total_receipts[c].Z]

RECURSIVE verifyChoices(_, _, _)
verifyChoices(st, json_data, c) ==
    IF st.exc # "none" \/ c = NumChoices THEN st
    ELSE verifyChoices(verifyChoice(st, json_data, c), json_data, c + 1)

\* lines 274-308: the key, the total hash, its signature, the election id.
\* VerifyingKey.verify returns True or raises BadSignatureError.
verifyHead(json_data) ==
    LET st == [valid |-> json_data.key_ok /\ json_data.hash_ok /\ json_data.id_ok,
               good_points |-> TRUE, total_receipts |-> NoSums,
               contributed |-> {}, exc |-> "none"]
    IN IF json_data.key_ok /\ ~json_data.sign_ok
       THEN Raise([st EXCEPT !.valid = json_data.key_ok /\ json_data.hash_ok],
                  "BadSignatureError")
       ELSE st

\* verifyElectionJson on the parsed file: ret is "True" or "False" when it
\* returns and "raised" when it raises exc; total_receipts and contributed are
\* the sums and the ballots added to them when it ended
verifyElectionData(json_data) ==
    LET st == verifyChoices(verifyBallots(verifyHead(json_data),
                                          json_data.ballots, 1),
                            json_data, 0)
    IN [fn |-> "verifyElectionJson",
        ret |-> IF st.exc # "none" THEN "raised"
                ELSE IF st.valid THEN "True" ELSE "False",
        exc |-> st.exc, total_receipts |-> st.total_receipts,
        contributed |-> st.contributed]

InitVerify ==
    /\ InitIdle
    /\ arg \in Transcripts
    /\ res = NoCall

VerifyJson ==
    /\ res.fn = "none"
    /\ res' = verifyElectionData(arg)
    /\ UNCHANGED arg
    /\ Idle

NextVerify == VerifyJson

SpecVerify == InitVerify /\ [][NextVerify]_vars

Verified == res.fn = "verifyElectionJson"

\* C15: verifyElectionJson never raises: for every transcript, also one with
\* a bad public key, an unparsable proof value, a mismatching hash or
\* signature or a ballot of invalid state, it returns True or False.
C15_VerifierReturnsBoolean ==
    Verified => res.ret \in {"True", "False"}

RECURSIVE ConfirmedSum(_, _)
ConfirmedSum(ballots, c) ==
    IF Len(ballots) = 0 THEN [R |-> INFINITY, Z |-> INFINITY]
    ELSE LET rest == ConfirmedSum(Tail(ballots), c)
             ballot == Head(ballots)
         IN IF ballot.state = "CONFIRMED" /\ c < ReceiptCount(ballot)
            THEN [R |-> PointAdd(rest.R, ReceiptR(ballot, c)),
                  Z |-> PointAdd(rest.Z, ReceiptZ(ballot, c))]
            ELSE rest

\* the published (s, t) of choice c do not fit the confirmed ballots
TallyMismatch(c) ==
    \/ ~hexToMpzOk(arg.s)
    \/ PointMul(g2, hexToMpz(arg.s)) # ConfirmedSum(arg.ballots, c).R
    \/ PointMul(g1, hexToMpz(arg.s) + arg.t) # ConfirmedSum(arg.ballots, c).Z

\* C17: verifyElectionJson returns False whenever the published (s, t) of some
\* choice do not satisfy s * gen_2 = sum of R and (s + t) * g1 = sum of Z over
\* the confirmed ballots' cryptograms of that choice.
C17_BadTallyRejected ==
    (Verified /\ \E c \in Choices : TallyMismatch(c)) => res.ret = "False"

\* the revealed (r, voted) of some receipt of the ballot do not fit its R, Z
BadReveal(ballot) ==
    \E i \in 0..(ReceiptCount(ballot) - 1) :
        \/ PointMul(g2, SecretOf(i)) # ReceiptR(ballot, i)
        \/ PointMul(g1, SecretOf(i) + VotedOf(ballot, i)) # ReceiptZ(ballot, i)

\* C18: verifyElectionJson returns False for every transcript with an AUDITED
\* ballot whose revealed (r, voted) of some choice do not satisfy
\* r * gen_2 = R and (r + voted) * g1 = Z.
C18_BadAuditRejected ==
    (Verified /\ \E b \in 1..Len(arg.ballots) :
        arg.ballots[b].state = "AUDITED" /\ BadReveal(arg.ballots[b]))
    => res.ret = "False"


(* ---- SpecAudit: helpers.auditBallot on one cast ballot ----------------- *)
\* choices of the question the audited ballot answers
AuditChoices == 3

\* the rows of getBallotData as a list: the receipts of the ballot in the
\* order they were inserted (choice-index order, the query has no ORDER BY),
\* DISTINCT dropping a (random_secret, voted) pair equal to an earlier one
RECURSIVE DistinctRows(_, _, _)
DistinctRows(d, id, count) ==
    IF count = 0 THEN <<>>
    ELSE LET before == DistinctRows(d, id, count - 1)
             k == <<id, count - 1>>
             row == <<d.receipts[k].random_secret, d.receipts[k].voted>>
         IN IF k \notin DOMAIN d.receipts THEN before
            ELSE IF \E j \in 1..Len(before) : before[j] = row THEN before
            ELSE Append(before, row)

getBallotRows(d, id) ==
    LET indices == {k[2] : k \in {x \in DOMAIN d.receipts : x[1] = id}}
    IN IF indices = {} THEN <<>> ELSE DistinctRows(d, id, Max(indices) + 1)

\* the receipt auditBallot returns when getBallotData returned rows
auditReceipt(d, id) ==
    LET secret_list == getBallotRows(d, id)
    IN [ballot_id |-> id, state |-> "AUDITED",
        choices |-> [i \in 1..Len(secret_list) |->
                        [r |-> secret_list[i][1],
                         voted |-> secret_list[i][2] = 1]]]

\* firstReceipt's loop of insertReceipt for a question of AuditChoices choices
RECURSIVE AuditReceiptLoop(_, _, _, _, _)
AuditReceiptLoop(d, id, index, choices, secret) ==
    IF index = AuditChoices THEN d
    ELSE AuditReceiptLoop(
            insertReceipt(d, id, hexStr(secret[index]), index,
                          index \in choices, TRUE).db,
            id, index + 1, choices, secret)

\* the store after voting stored ballot 1 completely: the ballot is CAST
CastStore(choices, secret) ==
    LET nb == insertNewBallot(insertElection, 1, 1, TRUE).db
        lp == AuditReceiptLoop(nb, 1, 0, choices, secret)
        np == addNumProofs(lp, 1, TRUE).db
    IN updateVoteReceipt(np, 1, "NULL", TRUE, TRUE).db

InitAudit ==
    /\ \E choices \in {c \in SUBSET (0..(AuditChoices - 1)) :
                            Cardinality(c) = max_answers},
          secret \in [0..(AuditChoices - 1) -> WideSecrets] :
        /\ db = CastStore(choices, secret)
        /\ arg = [fn |-> "auditBallot", ballot_id |-> 1,
                  choices |-> choices, secret |-> secret]
    /\ session = [v \in Voters |-> EmptySession]
    /\ pc = [v \in Voters |-> "idle"]
    /\ newId = [v \in Voters |-> 0]
    /\ rows = [v \in Voters |-> {}]
    /\ last = NoRequest
    /\ clock = start_time
    /\ jsonFile = NoFile
    /\ allocated = [i \in Ids |-> IF i = 1 THEN 1 ELSE 0]
    /\ faults = 0
    /\ counted = [i \in Ids |-> 0]
    /\ owner = [i \in Ids |-> IF i = 1 THEN "v1" ELSE Nobody]
    /\ res = NoCall

\* auditBallot(ballot_id), nothing raises
AuditCall ==
    /\ res.fn = "none"
    /\ db' = auditBallot(db, arg.ballot_id, TRUE, TRUE).db
    /\ res' = [fn |-> "auditBallot", ret |-> auditReceipt(db, arg.ballot_id)]
    /\ UNCHANGED <<arg, owner, session, pc, newId, rows, last, clock, jsonFile,
                   allocated, faults, counted>>

NextAudit == AuditCall

SpecAudit == InitAudit /\ [][NextAudit]_vars

\* C19: auditBallot of a CAST ballot returns a receipt of state AUDITED that
\* holds, for every choice of the ballot and in choice-index order, the stored
\* secret r and voted flag of that choice, and the secrets stay in the store.
C19_AuditRevealsEveryChoice ==
    res.fn = "auditBallot" =>
        /\ res.ret.state = "AUDITED"
        /\ res.ret.choices =
            [i \in 1..AuditChoices |->
                [r |-> hexStr(arg.secret[i - 1]), voted |-> (i - 1) \in arg.choices]]
        /\ \A i \in 0..(AuditChoices - 1) :
            /\ db.receipts[<<1, i>>].random_secret = hexStr(arg.secret[i])
            /\ db.receipts[<<1, i>>].voted = IF i \in arg.choices THEN 1 ELSE 0


\* C20: a confirm that was handled has advanced the voter's current_question
\* by one (from the question of the ballot to the next), and a voter whose
\* current_question exceeds the number of questions is marked finished_voting.
C20_ConfirmAdvancesVoter ==
    ConfirmHandled =>
        \A v \in Voters :
            (session[v].bid = last.id /\ "_user_id" \in session[v].keys) =>
                /\ db.voters[v].current_question
                        = db.ballots[last.id].question_id + 1
                /\ (db.voters[v].current_question > totalQuestions
                        => db.voters[v].finished_voting = 1)

(* ----------------------- audit and the next cast ----------------------- *)
\* the voter's session holds the stage-2 receipt of the ballot they audited
HoldsAudit(v) == Stage2Keys \subseteq session[v].keys /\ session[v].bid # 0

\* C21: the audit request leaves the voter's current_question and
\* finished_voting as they were, and the ballot_id the voter's next cast obtains
\* from getNewBallotID differs from the id of the ballot they audited.
C21_AuditThenFreshId ==
    [][\A v \in Voters :
        /\ Audit(v) => db'.voters[v] = db.voters[v]
        /\ (CastStart(v) /\ HoldsAudit(v)) => newId'[v] # session[v].bid]_vars

\* the voter casts again after an audit: the new request holds an id
C21_Witness ==
    \E v \in Voters : pc[v] = "cast" /\ HoldsAudit(v) /\ last.op = "audit"

(* ------------------- one confirmed ballot per voter -------------------- *)
\* the ballots of voter v for question q that are CONFIRMED or were added to the
\* tallies
ConfirmedOf(v, q) ==
    {id \in Ids : /\ owner[id] = v
                  /\ HasBallot(id)
                  /\ db.ballots[id].question_id = q
                  /\ (CONFIRMED(id) \/ counted[id] > 0)}

PyStr(s) == [t |-> "str", v |-> s]
PyBytes(s) == [t |-> "bytes", v |-> s]
PyInt(k) == [t |-> "int", v |-> k]
PyBool(b) == [t |-> "bool", v |-> b]
\* a dict: its items <<key, value>> in insertion order
PyDict(items) == [t |-> "dict", v |-> items]
TypeError == [t |-> "TypeError", v |-> <<>>]

\* json.dumps with its default separators ", " and ": "
RECURSIVE decimal(_)
decimal(k) ==
    IF k < 10 THEN <<48 + k>> ELSE decimal(k \div 10) \o <<48 + (k % 10)>>
quoted(s) == <<34>> \o s \o <<34>>
dumpsValue(x) ==
    CASE x.t = "int" -> decimal(x.v)
      [] x.t = "bool" -> IF x.v THEN <<116, 114, 117, 101>>
                         ELSE <<102, 97, 108, 115, 101>>
      [] x.t = "str" -> quoted(x.v)
RECURSIVE dumpsItems(_, _)
dumpsItems(items, i) ==
    IF i > Len(items) THEN <<>>
    ELSE (IF i > 1 THEN <<44, 32>> ELSE <<>>)
         \o quoted(items[i][1]) \o <<58, 32>> \o dumpsValue(items[i][2])
         \o dumpsItems(items, i + 1)
dumps(x) == PyStr(<<123>> \o dumpsItems(x.v, 1) \o <<125>>)

\* json.loads of an object of numbers, strings and booleans
RECURSIVE skip(_, _)
skip(s, i) == IF i <= Len(s) /\ s[i] = 32 THEN skip(s, i + 1) ELSE i
RECURSIVE closing(_, _)
closing(s, i) == IF i > Len(s) \/ s[i] = 34 THEN i ELSE closing(s, i + 1)
scanString(s, i) ==
    LET j == closing(s, i + 1)
    IN  [val |-> SubSeq(s, i + 1, j - 1), pos |-> j + 1]
RECURSIVE scanInt(_, _, _)
scanInt(s, i, acc) ==
    IF i <= Len(s) /\ s[i] \in 48..57
    THEN scanInt(s, i + 1, 10 * acc + (s[i] - 48))
    ELSE [val |-> PyInt(acc), pos |-> i]
scanValue(s, i) ==
    CASE s[i] = 34 -> LET r == scanString(s, i)
                      IN  [val |-> PyStr(r.val), pos |-> r.pos]
      [] s[i] = 116 -> [val |-> PyBool(TRUE), pos |-> i + 4]
      [] s[i] = 102 -> [val |-> PyBool(FALSE), pos |-> i + 5]
      [] OTHER -> scanInt(s, i, 0)
RECURSIVE scanItems(_, _, _)
scanItems(s, i, acc) ==
    LET j == skip(s, i)
    IN  IF j > Len(s) \/ s[j] = 125 THEN acc
        ELSE LET k == scanString(s, j)
                 c == skip(s, k.pos)
                 x == scanValue(s, skip(s, c + 1))
                 e == skip(s, x.pos)
             IN  scanItems(s, IF e <= Len(s) /\ s[e] = 44 THEN e + 1 ELSE e,
                           Append(acc, <<k.val, x.val>>))
loads(x) == PyDict(scanItems(x.v, 2, <<>>))

\* base64.b64encode / b64decode over the standard alphabet with = padding
b64char(k) ==
    IF k < 26 THEN 65 + k
    ELSE IF k < 52 THEN 71 + k
    ELSE IF k < 62 THEN k - 4
    ELSE IF k = 62 THEN 43 ELSE 47
b64index(c) ==
    IF c \in 65..90 THEN c - 65
    ELSE IF c \in 97..122 THEN c - 71
    ELSE IF c \in 48..57 THEN c + 4
    ELSE IF c = 43 THEN 62 ELSE 63
RECURSIVE b64encodeFrom(_, _)
b64encodeFrom(s, i) ==
    IF i > Len(s) THEN <<>>
    ELSE LET b2 == IF i + 1 <= Len(s) THEN s[i + 1] ELSE 0
             b3 == IF i + 2 <= Len(s) THEN s[i + 2] ELSE 0
             w == s[i] * 65536 + b2 * 256 + b3
         IN  <<b64char(w \div 262144), b64char((w \div 4096) % 64),
               IF i + 1 <= Len(s) THEN b64char((w \div 64) % 64) ELSE 61,
               IF i + 2 <= Len(s) THEN b64char(w % 64) ELSE 61>>
             \o b64encodeFrom(s, i + 3)
b64encode(s) == b64encodeFrom(s, 1)
RECURSIVE b64decodeFrom(_, _)
b64decodeFrom(s, i) ==
    IF i > Len(s) THEN <<>>
    ELSE LET pad3 == s[i + 2] = 61
             pad4 == s[i + 3] = 61
             w == b64index(s[i]) * 262144 + b64index(s[i + 1]) * 4096
                  + (IF pad3 THEN 0 ELSE b64index(s[i + 2]) * 64)
                  + (IF pad4 THEN 0 ELSE b64index(s[i + 3]))
         IN  <<w \div 65536>>
             \o (IF pad3 THEN <<>> ELSE <<(w \div 256) % 256>>)
             \o (IF pad4 THEN <<>> ELSE <<w % 256>>)
             \o b64decodeFrom(s, i + 4)
b64decode(s) == b64decodeFrom(s, 1)

\* helpers.stringToHex returns the bytes b64encode returns; hexToString decodes
stringToHex(x) == PyBytes(b64encode(x.v))
hexToString(x) == PyStr(b64decode(x.v))

\* crypto.hashString: bytes(string, 'utf-8') takes a str only; SHA-512 is an
\* injective tag on the text
hashString(x) ==
    IF x.t = "str" THEN [t |-> "sha512", v |-> x.v] ELSE TypeError

\* the keys and state names of the receipts
Text ==
    [ballot_id |-> <<98, 97, 108, 108, 111, 116, 95, 105, 100>>,
     max_answers |-> <<109, 97, 120, 95, 97, 110, 115, 119, 101, 114, 115>>,
     index |-> <<105, 110, 100, 101, 120>>,
     state |-> <<115, 116, 97, 116, 101>>,
     voted |-> <<118, 111, 116, 101, 100>>,
     AUDITED |-> <<65, 85, 68, 73, 84, 69, 68>>,
     CONFIRMED |-> <<67, 79, 78, 70, 73, 82, 77, 69, 68>>]
BallotIdValues == {1, 12, 305}

\* the receipt of firstReceipt (stage 1) and of auditBallot or confirmBallot
\* (stage 2), with its top-level items and one choice
StageReceipts(stage) ==
    IF stage = 1
    THEN {PyDict(<<<<Text.ballot_id, PyInt(b)>>, <<Text.max_answers, PyInt(k)>>,
                   <<Text.index, PyInt(i)>>>>) :
             b \in BallotIdValues, k \in 1..NumChoices, i \in 0..NumChoices}
    ELSE {PyDict(<<<<Text.ballot_id, PyInt(b)>>, <<Text.state, PyStr(s)>>,
                   <<Text.voted, PyBool(x)>>>>) :
             b \in BallotIdValues, s \in {Text.AUDITED, Text.CONFIRMED},
             x \in BOOLEAN}

\* getJSONBallots unpacks each row of six columns into ten names
RowUnpacks == FALSE

\* one stage of a ballot as the loop of getJSONBallots builds it
stageEntry(hash, json) ==
    [hash |-> hash, data |-> loads(hexToString(json))]

InitExport ==
    /\ InitIdle
    /\ \E stage \in 1..2 : \E receipt \in StageReceipts(stage) :
        arg = [fn |-> "stage", stage |-> stage, receipt |-> receipt]
    /\ res = NoCall

\* voting and auditOrConfirm: the receipt is dumped, hashed and stored
StoreStage ==
    /\ res.fn = "none"
    /\ LET json_str == dumps(arg.receipt)
       IN  res' = [fn |-> "updateVoteReceipt", json_str |-> json_str,
                   hash |-> hashString(json_str),
                   json |-> stringToHex(json_str)]
    /\ Idle
    /\ UNCHANGED arg

\* getJSONBallots on the stored row
ExportStage ==
    /\ res.fn = "updateVoteReceipt"
    /\ ~RowUnpacks
    /\ res' = [fn |-> "getJSONBallots", ret |-> "None", json_str |-> res.json_str,
               hash |-> res.hash]
    /\ Idle
    /\ UNCHANGED arg

\* a transcript that holds the stage as db.py:811-827 lays it out
EntryStage ==
    /\ res.fn = "updateVoteReceipt"
    /\ res' = [fn |-> "transcript", json_str |-> res.json_str,
               entry |-> stageEntry(res.hash, res.json)]
    /\ Idle
    /\ UNCHANGED arg

\* verifyElectionJson: the hash of the stage's data and its dump
VerifyStage ==
    /\ res.fn = "transcript"
    /\ res' = [fn |-> "verifyElectionJson", json_str |-> res.json_str,
               entry |-> res.entry,
               stage_hash |-> hashString(res.entry.data),
               stage |-> dumps(res.entry.data)]
    /\ Idle
    /\ UNCHANGED arg

NextExport == StoreStage \/ ExportStage \/ EntryStage \/ VerifyStage
SpecExport == InitExport /\ [][NextExport]_vars

C23_RoundTrip ==
    res.fn = "verifyElectionJson" => res.stage = res.json_str

(* ----------------------- range of the proof values --------------------- *)
\* int(s, 16) of a returned proof string lies in [0, n)
Reduced(s) == HexValue(s) \in 0..(n - 1)

\* C24: every component of a proof the provers return is reduced mod n: c_1,
\* c_2, r_1 and r_2 of generateZKProof and the response r of generateNumProof
\* lie in [0, n).
C24_ProofReducedModN ==
    /\ res.fn = "generateZKProof" =>
        /\ Reduced(res.proof.c_1) /\ Reduced(res.proof.c_2)
        /\ Reduced(res.proof.r_1) /\ Reduced(res.proof.r_2)
    /\ res.fn = "generateNumProof" => Reduced(res.proof.r)

\* the response of generateNumProof alone
C24_NumResponseReduced ==
    res.fn = "generateNumProof" => Reduced(res.proof.r)

(* ---- SpecPair: generatePair, the stored generator and its readers ------ *)
\* the curve y^2 = x^3 + a*x + b over the field of q elements, reduced to the
\* curve of n = 5 points: q = 3 mod 4 as the prime of NIST256p, a = q - 3
q == 7
a == 4
b == 1
cofactor == 1
\* the loop of generatePair is followed for count = 0..MaxCount
MaxCount == 2
\* a digest is an integer of as many bits as q, not reduced mod q
Candidates == 0..q
NoPoint == <<>>

RECURSIVE powmod(_, _, _)
powmod(x, e, m) == IF e = 0 THEN 1 % m ELSE (x * powmod(x, e - 1, m)) % m
divexact(x, d) == x \div d

\* hashElectionString with the call number mixed into the digest
hashElectionStringPerCall(election_string, count) ==
    arg.digests[((count + res.call - 1) % (MaxCount + 1)) + 1]

\* hashElectionString: SHA-256 over the curve parameters, the string and the
\* count; arg.digests holds the digests of the string under test by count
hashElectionString(election_string, count) == arg.digests[count + 1]

eulerCriterion(num) == powmod(num, divexact(q - 1, 2), q)

\* Point(curve, x, y) asserts that the point is on the curve
contains_point(x, y) == (y * y) % q = ((x * x + a) * x + b) % q

\* one pass of the loop of generatePair: the second generator it returns, or
\* NoPoint when the pass ends with count += 1
generatePairPass(election_string, count) ==
    LET x == hashElectionString(election_string, count)
        z == (powmod(x, 3, q) + (a * x + b)) % q
        y == powmod(z, divexact(q + 1, 4), q)
    IN  \* g2 * cofactor is g2 itself, and no Point(curve, x, y) is INFINITY
        IF eulerCriterion(z) = 1 /\ contains_point(x, y) /\ cofactor = 1
        THEN <<x, y>>
        ELSE NoPoint

\* helpers.pointToBytestr: the bytes of x and of y as hexadecimal digits;
\* bytestrToPoint reads them back
pointToBytestr(point) ==
    <<point[1] \div 16, point[1] % 16, point[2] \div 16, point[2] % 16>>
bytestrToPoint(bytestring) ==
    <<16 * bytestring[1] + bytestring[2], 16 * bytestring[3] + bytestring[4]>>

InitPair ==
    /\ InitIdle
    /\ \E digests \in [1..(MaxCount + 1) -> Candidates] :
        arg = [fn |-> "generatePair", election_string |-> "q1",
               digests |-> digests]
    /\ res = NoCall

\* parseElection calls generatePair(question_id)
CallPair ==
    /\ res.fn = "none"
    /\ res' = [fn |-> "generatePair", call |-> 1, count |-> 0, g2 |-> NoPoint,
               first |-> NoPoint, gen_2 |-> NullText, used |-> NoPoint]
    /\ Idle
    /\ UNCHANGED arg

\* one pass of the while True loop
PairPass ==
    /\ res.fn = "generatePair"
    /\ res.g2 = NoPoint
    /\ res.count <= MaxCount
    /\ LET pair == generatePairPass(arg.election_string, res.count)
       IN  res' = IF pair # NoPoint
                  THEN [res EXCEPT !.g2 = pair,
                                   !.first = IF res.call = 1 THEN pair ELSE @]
                  ELSE [res EXCEPT !.count = @ + 1]
    /\ Idle
    /\ UNCHANGED arg

\* parseElection builds the Question with gen_2, insertElection stores
\* pointToBytestr(question.gen_2) in questions.gen_2
StorePair ==
    /\ res.fn = "generatePair"
    /\ res.call = 1
    /\ res.g2 # NoPoint
    /\ res' = [res EXCEPT !.fn = "insertElection",
                          !.gen_2 = pointToBytestr(res.g2)]
    /\ Idle
    /\ UNCHANGED arg

Stored == res.fn \in {"insertElection", "firstReceipt", "makeElectionJson"}

\* voting: getQuestionByNum rebuilds the Question, firstReceipt uses its gen_2
CastReads ==
    /\ Stored
    /\ res' = [res EXCEPT !.fn = "firstReceipt",
                          !.used = bytestrToPoint(res.gen_2)]
    /\ Idle
    /\ UNCHANGED arg

\* download: makeElectionJson writes pointToBytestr(question.gen_2) of the
\* election read from the store, the verifier reads it with bytestrToPoint
ExportReads ==
    /\ Stored
    /\ res' = [res EXCEPT !.fn = "makeElectionJson",
                          !.used = bytestrToPoint(pointToBytestr(
                                        bytestrToPoint(res.gen_2)))]
    /\ Idle
    /\ UNCHANGED arg

\* generatePair is called once more with the same string
CallPairAgain ==
    /\ Stored
    /\ res.call = 1
    /\ res' = [res EXCEPT !.fn = "generatePair", !.call = 2, !.count = 0,
                          !.g2 = NoPoint]
    /\ Idle
    /\ UNCHANGED arg

NextPair ==
    \/ CallPair
    \/ PairPass
    \/ StorePair
    \/ CastReads
    \/ ExportReads
    \/ CallPairAgain
SpecPair == InitPair /\ [][NextPair]_vars

C26_LoopCapped ==
    (res.fn = "generatePair" /\ res.g2 = NoPoint) => res.count <= MaxCount

(* ---- SpecRand: generateRandSecret, the draws of one generateZKProof ---- *)
\* generateZKProof calls generateRandSecret for w, r_2 and c_2
ProofDraws == 3
\* the loop of generateRandSecret is followed for MaxTries samples
MaxTries == 3

\* secrets.randbelow(k): the values a sample can take
randbelow(k) == 0..(k - 1)

\* the loop test of generateRandSecret left out
randSecretNeverLoops(r) == FALSE

\* while r == 0
randSecretLoops(r) == r = 0

InitRand ==
    /\ InitIdle
    /\ arg = [fn |-> "generateZKProof"]
    /\ res = NoCall

\* generateRandSecret is entered: r = 0
CallRand ==
    /\ \/ res.fn = "none"
       \/ /\ res.fn = "generateRandSecret"
          /\ res.pc = "returned"
          /\ Len(res.secrets) < ProofDraws
    /\ res' = [fn |-> "generateRandSecret", pc |-> "loop", r |-> 0, tries |-> 0,
               secrets |-> IF res.fn = "none" THEN <<>> ELSE res.secrets]
    /\ Idle
    /\ UNCHANGED arg

\* the test of the loop and, when it holds, one sample
SampleRand ==
    /\ res.fn = "generateRandSecret"
    /\ res.pc = "loop"
    /\ randSecretLoops(res.r)
    /\ res.tries < MaxTries
    /\ \E sample \in randbelow(n) :
        res' = [res EXCEPT !.r = sample, !.tries = @ + 1]
    /\ Idle
    /\ UNCHANGED arg

\* the test of the loop fails: return mpz(r)
ReturnRand ==
    /\ res.fn = "generateRandSecret"
    /\ res.pc = "loop"
    /\ ~randSecretLoops(res.r)
    /\ res' = [res EXCEPT !.pc = "returned", !.secrets = Append(@, res.r)]
    /\ Idle
    /\ UNCHANGED arg

NextRand == CallRand \/ SampleRand \/ ReturnRand
SpecRand == InitRand /\ [][NextRand]_vars

\* C27: generateRandSecret returns a value in [1, n-1], never 0 and never a
\* value >= n; a sample of 0 is not returned, the loop samples again.
C27_SecretInRange ==
    res.fn = "generateRandSecret" =>
        /\ \A i \in 1..Len(res.secrets) : res.secrets[i] \in 1..(n - 1)
        /\ res.pc = "returned" => res.r \in 1..(n - 1)

\* the third secret of a proof, returned after a sample of 0 was drawn again
C27_Witness ==
    /\ res.fn = "generateRandSecret" /\ res.pc = "returned"
    /\ res.tries > 1
    /\ Len(res.secrets) = ProofDraws

(* ---- SpecCount: the k of the count proof at cast and at the replay ----- *)
\* G_1 of generateNumProof and of verifyNumProof
numProofG_1(gen_1, Z_list, num_choices) ==
    PointAdd(pointSum(Z_list), PointMul(PointNeg(gen_1), num_choices))

\* the question of the ballot: len(question.choices) and question.max_answers
question == [choices |-> NumChoices, max_answers |-> max_answers]

InitCount ==
    /\ InitIdle
    /\ \E r_list \in BallotSecrets, voted \in BallotVotes :
        arg = [fn |-> "firstReceipt", r_list |-> r_list, voted |-> voted,
               R_list |-> [i \in 1..NumChoices |-> generateR(g2, r_list[i])],
               Z_list |-> [i \in 1..NumChoices |-> generateZ(r_list[i], voted[i])]]
    /\ res = NoCall

\* firstReceipt: num_choices = len(question.choices) is what generateNumProof
\* is given; the receipt carries question.max_answers
CastCount ==
    /\ res.fn = "none"
    /\ \E w \in Secrets :
        LET num_choices == question.choices
        IN  res' = [fn |-> "firstReceipt",
                    num_choices |-> num_choices,
                    G_1 |-> numProofG_1(g1, arg.Z_list, num_choices),
                    proof |-> generateNumProof(g2, arg.R_list, arg.Z_list,
                                               arg.r_list, num_choices, w),
                    max_answers |-> question.max_answers]
    /\ Idle
    /\ UNCHANGED arg

\* verifyElectionJson: verifyNumProof is given int(ballot['max_answers'])
ReplayCount ==
    /\ res.fn = "firstReceipt"
    /\ res' = [fn |-> "verifyElectionJson",
               cast |-> [num_choices |-> res.num_choices, G_1 |-> res.G_1],
               num_choices |-> res.max_answers,
               G_1 |-> numProofG_1(g1, arg.Z_list, res.max_answers)]
    /\ Idle
    /\ UNCHANGED arg

NextCount == CastCount \/ ReplayCount
SpecCount == InitCount /\ [][NextCount]_vars

\* C28: cast builds the count proof for k = the question's max_answers, with
\* G_1 = sum of Z_i - k*g1, and verifyElectionJson passes the same k to
\* verifyNumProof when it replays the ballot.
C28_SameCountAtReplay ==
    /\ res.fn = "firstReceipt" =>
        /\ res.num_choices = question.max_answers
        /\ res.G_1 = numProofG_1(g1, arg.Z_list, question.max_answers)
    /\ res.fn = "verifyElectionJson" =>
        /\ res.cast.num_choices = res.num_choices
        /\ res.cast.G_1 = res.G_1

(* ---- SpecConfirm: incrementTallies and deleteSecrets of one confirm ---- *)
\* auditOrConfirm after confirmBallot (main.py:436): incrementTallies(ballot_id)
\* as one statement; ok = FALSE when its query raises and it returns None.
\* The handler does not look at what it returns.
ConfirmTally(v) ==
    /\ pc[v] = "idle"
    /\ \E ok \in BOOLEAN :
        /\ ~ok => faults < MaxFaults
        /\ faults' = IF ok THEN faults ELSE faults + 1
        /\ db' = incrementTallies(db, session[v].bid, ok)
        /\ counted' = [counted EXCEPT ![session[v].bid] =
                        IF RowsUpdated(IncSelect(db, session[v].bid, ok)) # {}
                        THEN @ + 1 ELSE @]
        /\ last' = [op |-> "tally", id |-> session[v].bid,
                    out |-> IF ok THEN "done" ELSE "failed"]
    /\ pc' = [pc EXCEPT ![v] = "tallied"]
    /\ UNCHANGED <<arg, res, owner, session, newId, rows, clock, jsonFile,
                   allocated>>

\* the next statement (main.py:437): deleteSecrets(ballot_id)
ConfirmDelete(v) ==
    /\ pc[v] = "tallied"
    /\ db' = deleteSecrets(db, session[v].bid, TRUE)
    /\ last' = [op |-> "delete", id |-> session[v].bid, out |-> "done"]
    /\ pc' = [pc EXCEPT ![v] = "done"]
    /\ UNCHANGED <<arg, res, owner, session, newId, rows, clock, jsonFile,
                   allocated, faults, counted>>

NextConfirm == \E v \in Voters : ConfirmTally(v) \/ ConfirmDelete(v)
SpecConfirm == InitTally /\ [][NextConfirm]_vars

\* every receipt of the ballot has lost random_secret and voted
SecretsDeleted(id) ==
    \A k \in ReceiptsOf(id) :
        db.receipts[k].random_secret = NullText /\ db.receipts[k].voted = NULL

C29_ReadBeforeDelete ==
    \A v \in Voters :
        (pc[v] = "done" /\ faults = 0) => counted[session[v].bid] > 0

(* ---- SpecForm: QuestionForm.validate, voting's choice, the receipts ---- *)
\* the question of the form has FormChoices choices; a POST carries at most
\* MaxPosted values for q_multi_choice
FormChoices == 3
MaxPosted == 2
\* a posted value int() raises ValueError for
NotAnInt == 99
\* the values a POST can carry for a field
Posted == ((0 - 1)..FormChoices) \cup {NotAnInt}

RECURSIVE SeqsUpTo(_, _)
SeqsUpTo(S, len) ==
    IF len = 0 THEN {<<>>}
    ELSE LET shorter == SeqsUpTo(S, len - 1)
         IN  shorter \cup {Append(s, x) : s \in {t \in shorter : Len(t) = len - 1},
                                           x \in S}

\* RadioField(coerce=int, validate_choice=False).process: data is None without
\* a value and when int() raises, which is a process error
processSingle(valuelist) ==
    IF Len(valuelist) = 0 THEN [none |-> TRUE, data |-> 0, error |-> FALSE]
    ELSE IF valuelist[1] = NotAnInt THEN [none |-> TRUE, data |-> 0, error |-> TRUE]
    ELSE [none |-> FALSE, data |-> valuelist[1], error |-> FALSE]

\* MultiCheckboxField(coerce=int, validate_choice=False).process: the list of
\* the coerced values, in the order and number they were posted
processMulti(valuelist) ==
    IF \E i \in 1..Len(valuelist) : valuelist[i] = NotAnInt
    THEN [none |-> TRUE, data |-> <<>>, error |-> TRUE]
    ELSE [none |-> FALSE, data |-> valuelist, error |-> FALSE]

InRange(choice_index) == ~(choice_index < 0 \/ choice_index >= FormChoices)

\* "ok", "ValidationError", or "TypeError" for the len() of None outside the try
validate_q_single_choice(expected_choices, field) ==
    IF expected_choices # 1 THEN "ok"
    ELSE IF field.none THEN "ValidationError"
    ELSE IF ~InRange(field.data) THEN "ValidationError"
    ELSE "ok"

validate_q_multi_choice(expected_choices, field) ==
    IF expected_choices = 1 THEN "ok"
    ELSE IF field.none THEN "TypeError"
    ELSE IF Len(field.data) # expected_choices THEN "ValidationError"
    ELSE IF \E i \in 1..Len(field.data) : ~InRange(field.data[i])
         THEN "ValidationError"
    ELSE "ok"

\* form.validate_on_submit() of a POST
validate_on_submit(expected_choices, single, multi) ==
    /\ ~single.error /\ ~multi.error
    /\ validate_q_single_choice(expected_choices, single) = "ok"
    /\ validate_q_multi_choice(expected_choices, multi) = "ok"

\* voting: the list handed to firstReceipt
formChoice(expected_choices, single, multi) ==
    IF expected_choices > 1 THEN multi.data ELSE <<single.data>>

\* firstReceipt: voted = choice in choices, for choice in range(num_choices)
receiptVoted(choices) ==
    [choice \in 0..(FormChoices - 1) |->
        \E i \in 1..Len(choices) : choices[i] = choice]

InitForm ==
    /\ InitIdle
    /\ \E k \in 1..(FormChoices - 1),
          one \in SeqsUpTo(Posted, 1), many \in SeqsUpTo(Posted, MaxPosted) :
        arg = [fn |-> "voting", max_answers |-> k,
               q_single_choice |-> one, q_multi_choice |-> many]
    /\ res = NoCall

\* voting, POST: QuestionForm(question, request.form).validate_on_submit()
ValidateForm ==
    /\ res.fn = "none"
    /\ LET single == processSingle(arg.q_single_choice)
           multi == processMulti(arg.q_multi_choice)
           valid == validate_on_submit(arg.max_answers, single, multi)
       IN  res' = [fn |-> "validate_on_submit", valid |-> valid,
                   choice |-> IF valid
                              THEN formChoice(arg.max_answers, single, multi)
                              ELSE <<>>]
    /\ Idle
    /\ UNCHANGED arg

\* voting: firstReceipt(question, election_id, voter_id, choice)
CastForm ==
    /\ res.fn = "validate_on_submit"
    /\ res.valid
    /\ res' = [fn |-> "firstReceipt", choice |-> res.choice,
               voted |-> receiptVoted(res.choice)]
    /\ Idle
    /\ UNCHANGED arg

NextForm == ValidateForm \/ CastForm
SpecForm == InitForm /\ [][NextForm]_vars

\* C30: a ballot that passed QuestionForm validation and is cast has exactly
\* k = max_answers distinct selected choice indexes, each in [0, m), and exactly
\* k of its m receipts are stored with voted = true.
C30_ExactlyKVoted ==
    res.fn = "firstReceipt" =>
        LET selected == {res.choice[i] : i \in 1..Len(res.choice)}
        IN  /\ Cardinality(selected) = arg.max_answers
            /\ selected \subseteq 0..(FormChoices - 1)
            /\ Cardinality({c \in DOMAIN res.voted : res.voted[c]})
                    = arg.max_answers

\* the same for a question with max_answers = 1 (radio buttons)
C30_SingleChoice ==
    (res.fn = "firstReceipt" /\ arg.max_answers = 1) =>
        Cardinality({c \in DOMAIN res.voted : res.voted[c]}) = 1

\* every index that is cast is in [0, m)
C30_IndexInRange ==
    res.fn = "firstReceipt" =>
        \A i \in 1..Len(res.choice) : InRange(res.choice[i])

(* ---- SpecQuestions: ElectionForm.validateQuestions on a posted form ---- *)
\* items of request.form.to_dict() that are looked at, in the order of the
\* form; all of them name question 1.  The same name twice stands for two
\* keys that differ in case only (the patterns are matched with IGNORECASE).
MaxItems == 4
FormItems ==
    {[key |-> "query", value |-> 0]}
        \cup {[key |-> "choice", value |-> c] : c \in 0..(FormChoices - 1)}
        \cup {[key |-> "maxanswers", value |-> v] :
                v \in (0..FormChoices) \cup {NotAnInt}}

\* questions = {} : the entry of question 1 is absent
NoQuestions ==
    [keys |-> {}, choices |-> {}, numanswers |-> 0, out |-> "running"]

\* one pass of the for loop over form_data.items()
validateItem(questions, item) ==
    IF questions.out # "running" THEN questions
    ELSE IF item.key = "query" THEN
        IF questions.keys # {} /\ "query" \in questions.keys
        THEN [questions EXCEPT !.out = "None"]
        ELSE [questions EXCEPT !.keys = @ \cup {"query"}]
    ELSE IF item.key = "choice" THEN
        IF questions.keys # {}
        THEN IF "choices" \in questions.keys
             THEN IF item.value \in questions.choices
                  THEN [questions EXCEPT !.out = "None"]
                  ELSE [questions EXCEPT !.choices = @ \cup {item.value}]
             ELSE [questions EXCEPT !.keys = @ \cup {"choices"},
                                    !.choices = {item.value}]
        \* questions[question_num] = {f'choice_{choice_num}': new_choice}
        ELSE [questions EXCEPT !.keys = {"choice_N"}]
    ELSE \* maxanswers_X
        IF item.value = NotAnInt THEN [questions EXCEPT !.out = "None"]
        ELSE IF item.value < 1 THEN [questions EXCEPT !.out = "None"]
        ELSE IF questions.keys # {} /\ "numanswers" \in questions.keys
             THEN [questions EXCEPT !.out = "None"]
        ELSE [questions EXCEPT !.keys = @ \cup {"numanswers"},
                               !.numanswers = item.value]

RECURSIVE validateLoop(_, _, _)
validateLoop(questions, form_data, i) ==
    IF i > Len(form_data) THEN questions
    ELSE validateLoop(validateItem(questions, form_data[i]), form_data, i + 1)

\* the outcome: "None", "KeyError" (raised, the except clause names ValueError
\* only) or "questions" with the dictionary that is returned
validateQuestions(form_data) ==
    LET questions == validateLoop(NoQuestions, form_data, 1)
    IN  IF questions.out # "running" THEN [questions EXCEPT !.out = "None"]
        ELSE IF questions.keys = {} THEN [questions EXCEPT !.out = "questions"]
        ELSE IF "numanswers" \notin questions.keys
             THEN [questions EXCEPT !.out = "KeyError"]
        ELSE IF "choices" \notin questions.keys
             THEN [questions EXCEPT !.out = "KeyError"]
        ELSE IF questions.numanswers >= Cardinality(questions.choices)
             THEN [questions EXCEPT !.out = "None"]
        ELSE [questions EXCEPT !.out = "questions"]

InitQuestions ==
    /\ InitIdle
    /\ \E form_data \in SeqsUpTo(FormItems, MaxItems) :
        arg = [fn |-> "create", form_data |-> form_data]
    /\ res = NoCall

\* create: questions = ElectionForm.validateQuestions(request_list)
CallValidateQuestions ==
    /\ res.fn = "none"
    /\ res' = [fn |-> "validateQuestions",
               questions |-> validateQuestions(arg.form_data)]
    /\ Idle
    /\ UNCHANGED arg

NextQuestions == CallValidateQuestions
SpecQuestions == InitQuestions /\ [][NextQuestions]_vars

Posts(key) == \E i \in 1..Len(arg.form_data) : arg.form_data[i].key = key

\* C31: every question accepted by validateQuestions has
\* 1 <= numanswers < number of choices; form data that violates this, or that
\* lacks the query, the choices or the number of answers of a question, is
\* rejected with None, and validateQuestions never raises.
C31_QuestionsValidated ==
    res.fn = "validateQuestions" =>
        /\ res.questions.out # "KeyError"
        /\ (res.questions.out = "questions" /\ res.questions.keys # {}) =>
                /\ 1 <= res.questions.numanswers
                /\ res.questions.numanswers < Cardinality(res.questions.choices)
        /\ (Len(arg.form_data) > 0
                /\ ~(Posts("query") /\ Posts("choice") /\ Posts("maxanswers")))
              => res.questions.out = "None"

\* the part of C31 about the questions that are accepted
C31_AcceptedInRange ==
    (res.fn = "validateQuestions" /\ res.questions.out = "questions"
            /\ res.questions.keys # {}) =>
        /\ 1 <= res.questions.numanswers
        /\ res.questions.numanswers < Cardinality(res.questions.choices)

\* the part of C31 about raising
C31_NeverRaises ==
    res.fn = "validateQuestions" => res.questions.out # "KeyError"

\* the part of C31 about a question without its query
C31_QueryRequired ==
    (res.fn = "validateQuestions" /\ res.questions.out = "questions"
            /\ res.questions.keys # {}) => "query" \in res.questions.keys

(* ---- C32: the status checks of voting and auditOrConfirm ---- *)
\* C32: cast, audit and confirm take effect only while the election is
\* ONGOING: no voting request gets past the status check, and no request
\* changes a ballot, receipt, tally or voter row, while the election is PENDING
\* or CLOSED.
C32_OnlyWhileOngoing ==
    [][/\ \A v \in Voters : CastStart(v) => checkStatus(clock) = "ONGOING"
       /\ (checkStatus(clock) # "ONGOING" /\ \A v \in Voters : pc[v] # "cast")
            => db' = db]_vars

\* the audit and confirm part of C32 alone
C32_AuditOnlyWhileOngoing ==
    [][(checkStatus(clock) # "ONGOING" /\ \A v \in Voters : pc[v] # "cast")
            => db' = db]_vars

\* the PENDING part of C32 alone
C32_NothingWhilePending ==
    [][checkStatus(clock) = "PENDING" => db' = db]_vars

(* ---- SpecBoard: db.getBallots along the lifecycle of two ballots ---- *)
\* getBallots with the inner query selecting on voted = 1 alone
boardChoicesAnyState(d, id) ==
    {k[2] : k \in {x \in DOMAIN d.receipts :
                    x[1] = id /\ d.receipts[x].voted = 1}}

\* the inner SELECT of getBallots: the choices of the ballot with
\* was_audited = 1 AND voted = 1, in index order
boardChoices(d, id) ==
    {k[2] : k \in {x \in DOMAIN d.receipts :
                    /\ x[1] = id
                    /\ d.ballots[id].was_audited = 1
                    /\ d.receipts[x].voted = 1}}

\* the rows of the outer SELECT: was_audited IS NOT NULL
boardListed(d) == {i \in DOMAIN d.ballots : d.ballots[i].was_audited # NULL}

RECURSIVE boardFrom(_, _)
boardFrom(d, id) ==
    IF id >= getNewBallotID(d) THEN <<>>
    ELSE IF id \notin boardListed(d) THEN boardFrom(d, id + 1)
    ELSE <<[ballot_id |-> id,
            question_id |-> d.ballots[id].question_id,
            audited |-> d.ballots[id].was_audited # 0,
            pretty |-> d.ballots[id].stage1,
            choices |-> boardChoices(d, id)]>> \o boardFrom(d, id + 1)

\* getBallots: the list for the bulletin board, ORDER BY ballot_id; None when
\* a listed row has no hash_1 (truncHash(None) raises inside the try)
getBallots(d) ==
    IF \E i \in boardListed(d) : ~d.ballots[i].stage1
    THEN [none |-> TRUE, ballots |-> <<>>]
    ELSE [none |-> FALSE, ballots |-> boardFrom(d, 1)]

\* two ballots of question 1 are cast and stored completely
InitBoard ==
    /\ \E c1, c2 \in {c \in SUBSET Choices : Cardinality(c) = max_answers},
          s1, s2 \in [Choices -> SecretSet] :
        db = CastDone(CastDone(insertElection, 1, 1, c1, s1), 2, 1, c2, s2)
    /\ session = [v \in Voters |->
                    [keys |-> {"_user_id"} \cup Stage1Keys, bid |-> BallotOf(v)]]
    /\ pc = [v \in Voters |-> "idle"]
    /\ newId = [v \in Voters |-> 0]
    /\ rows = [v \in Voters |-> {}]
    /\ last = NoRequest
    /\ clock = start_time
    /\ jsonFile = NoFile
    /\ allocated = [i \in Ids |-> IF i <= 2 THEN 1 ELSE 0]
    /\ faults = 0
    /\ counted = [i \in Ids |-> 0]
    /\ owner = [i \in Ids |-> IF i = 1 THEN "v1" ELSE IF i = 2 THEN "v2" ELSE Nobody]
    /\ arg = NoCall
    /\ res = NoCall

BoardFrame ==
    UNCHANGED <<arg, owner, session, pc, newId, rows, last, clock, jsonFile,
                allocated, faults, counted>>

\* auditOrConfirm, audit branch: auditBallot(ballot_id) on a CAST ballot
BoardAudit(id) ==
    /\ HasBallot(id) /\ db.ballots[id].was_audited = NULL
    /\ db' = auditBallot(db, id, TRUE, TRUE).db
    /\ BoardFrame
    /\ UNCHANGED res

\* the statement confirmBallot ends with, on a CAST ballot
BoardConfirm(id) ==
    /\ HasBallot(id) /\ db.ballots[id].was_audited = NULL
    /\ db' = MarkConfirmed(db, id)
    /\ BoardFrame
    /\ UNCHANGED res

\* auditOrConfirm, confirm branch: deleteSecrets(ballot_id)
BoardDelete(id) ==
    /\ CONFIRMED(id)
    /\ db' = deleteSecrets(db, id, TRUE)
    /\ BoardFrame
    /\ UNCHANGED res

\* results: receipts = getBallots(election)
BoardView ==
    /\ res' = [fn |-> "getBallots", receipts |-> getBallots(db)]
    /\ BoardFrame
    /\ UNCHANGED db

NextBoard ==
    \/ \E id \in Ids : BoardAudit(id) \/ BoardConfirm(id) \/ BoardDelete(id)
    \/ BoardView
SpecBoard == InitBoard /\ [][NextBoard]_vars

\* the store with the ballot's vote replaced by another one
Revote(d, id, alt) ==
    [d EXCEPT !.receipts =
        [k \in DOMAIN d.receipts |->
            IF k[1] = id /\ d.receipts[k].voted # NULL
            THEN [d.receipts[k] EXCEPT !.voted = IF k[2] \in alt THEN 1 ELSE 0]
            ELSE d.receipts[k]]]

Terminal == {i \in DOMAIN db.ballots : db.ballots[i].was_audited # NULL}

\* C34: the transcript a download produces contains exactly the ballots that
\* are AUDITED or CONFIRMED, and a ballot that is still CAST appears neither in
\* the export nor on the bulletin board.
C34_ExportListsTerminalBallots ==
    /\ last.op = "download" =>
        /\ jsonFile.exists
        /\ jsonFile.ballots = Cardinality(Terminal)
    /\ res.fn = "getBallots" =>
        \A i \in 1..Len(res.receipts.ballots) :
            res.receipts.ballots[i].ballot_id \in Terminal

\* the bulletin board half of C34, for getBallots along the lifecycle
C34_CastNotOnBoard ==
    /\ getBallots(db).none = FALSE
    /\ {getBallots(db).ballots[i].ballot_id :
            i \in 1..Len(getBallots(db).ballots)} = Terminal
    /\ \A i, j \in 1..Len(getBallots(db).ballots) :
        i < j => getBallots(db).ballots[i].ballot_id
                    < getBallots(db).ballots[j].ballot_id

(* ---- SpecResults: the results page while the tallies grow ---- *)
\* totals = None
NoTotals == <<>>

\* helpers.electionTotals: per question, per choice in index order, the stored
\* tally and sum
electionTotals(d) ==
    [qn \in DOMAIN d.choices |->
        [c \in DOMAIN d.choices[qn] |->
            [tally |-> d.choices[qn][c].tally_total,
             sum |-> d.choices[qn][c].sum_total]]]

\* results that fetches the totals whatever the status is
resultsTotalsAnyStatus(status, d) == electionTotals(d)

\* results: only get the results if the election has finished
resultsTotals(status, d) ==
    IF status = "CLOSED" THEN electionTotals(d) ELSE NoTotals

\* a new election before its start time, or two ballots marked confirmed while
\* the election is ONGOING
InitResults == Init \/ InitTally

\* GET /results/<election_id>
results ==
    /\ LET status == checkStatus(clock)
       IN  res' = IF status = "PENDING"
                  THEN [fn |-> "results", status |-> status, page |-> "view",
                        totals |-> NoTotals]
                  ELSE [fn |-> "results", status |-> status,
                        page |-> "bulletin.html",
                        totals |-> resultsTotals(status, db)]
    /\ Idle
    /\ UNCHANGED arg

NextResults ==
    \/ Tick
    \/ results
    \/ \E v \in Voters : ConfirmTally(v) \/ ConfirmDelete(v)
SpecResults == InitResults /\ [][NextResults]_vars

\* C35: the results page returns per-choice totals only when the election is
\* CLOSED; while it is PENDING or ONGOING no tally value is returned.
C35_TotalsOnlyWhenClosed ==
    res.fn = "results" =>
        /\ res.totals # NoTotals => res.status = "CLOSED"
        /\ res.status = "CLOSED" => res.page = "bulletin.html"

\* the page of a CLOSED election was returned with a tally that is not zero
C35_Witness ==
    /\ res.fn = "results"
    /\ res.status = "CLOSED"
    /\ res.totals # NoTotals
    /\ \E qn \in DOMAIN res.totals : \E c \in DOMAIN res.totals[qn] :
        res.totals[qn][c].tally > 0

\* the page of an ONGOING election was returned while a tally is not zero
C35_WitnessOngoing ==
    /\ res.fn = "results"
    /\ res.status = "ONGOING"
    /\ checkStatus(clock) = "ONGOING"
    /\ \E qn \in DOMAIN db.choices : \E c \in DOMAIN db.choices[qn] :
        db.choices[qn][c].tally_total > 0

(* ---- SpecWritten: the requests that follow a written transcript ---- *)
\* the election has closed without an AUDITED or CONFIRMED ballot, the voters
\* logged in while it was ONGOING, and makeElectionJson has written the file;
\* the specification starts behind getChoiceTallies, which as it is returns
\* None for every election that has a choice
InitWritten ==
    /\ db = insertElection
    /\ session = [v \in Voters |-> [keys |-> {"_user_id"}, bid |-> 0]]
    /\ pc = [v \in Voters |-> "idle"]
    /\ newId = [v \in Voters |-> 0]
    /\ rows = [v \in Voters |-> {}]
    /\ last = [op |-> "download", id |-> 0, out |-> "sent"]
    /\ clock = end_time
    /\ jsonFile = [exists |-> TRUE, ballots |-> 0]
    /\ allocated = [i \in Ids |-> 0]
    /\ faults = 0
    /\ counted = [i \in Ids |-> 0]
    /\ owner = [i \in Ids |-> Nobody]
    /\ arg = NoCall
    /\ res = NoCall

NextWritten ==
    \/ download
    \/ \E v \in Voters :
        \/ CastStart(v)
        \/ CastFinish(v)
        \/ BadSession(v)
        \/ Audit(v)
        \/ Confirm(v)
        \/ NoChoice(v)
        \/ showBallot(v)
SpecWritten == InitWritten /\ [][NextWritten]_vars

C36_WrittenOnlyWhenClosed ==
    [][jsonFile' # jsonFile => checkStatus(clock) = "CLOSED"]_vars

\* in the handlers as they are no file is written for an election that has a
\* question
C36_NeverWritten == ~jsonFile.exists

(* ---- SpecSign: auditOrConfirm's check of the stage-1 signature ---- *)
SigningKeys == {"k1", "k2"}
StageHashes == {"h1", "h2"}
\* a signature that is no signature of the curve (wrong length, not hex)
Malformed == [data |-> "none", key |-> "none"]

\* signData: the signature of the string under the key, as hex
signData(string, private) == [data |-> string, key |-> private]

\* verifyData: VerifyingKey.verify returns True for the signature of the data
\* under the key and raises BadSignatureError for every other signature; it
\* has no path that returns False
verifyData(data, key, signature) ==
    IF signature = signData(data, key) THEN "True" ELSE "BadSignatureError"

\* auditOrConfirm from the signature check on, for a session that holds
\* sign_1, hash_1 and receipt
verifySession(hash_1, key, sign_1, button) ==
    LET verified == verifyData(hash_1, key, sign_1)
    IN  IF verified = "BadSignatureError"
        THEN [page |-> "500", session |-> "kept", carried |-> "none"]
        ELSE IF verified # "True"
        THEN [page |-> "voting", session |-> "cleared", carried |-> "none"]
        ELSE IF button = "GET"
        THEN [page |-> "audit.html", session |-> "kept", carried |-> "none"]
        ELSE [page |-> "showBallot", session |-> "kept", carried |-> button]

InitSign ==
    /\ InitIdle
    /\ \E hash_1 \in StageHashes, key \in SigningKeys,
          sign_1 \in {signData(h, k) : h \in StageHashes, k \in SigningKeys}
                        \cup {Malformed},
          button \in {"GET", "audit", "confirm"} :
        arg = [fn |-> "auditOrConfirm", hash_1 |-> hash_1, sign_1 |-> sign_1,
               key |-> key, button |-> button]
    /\ res = NoCall

\* the request
VerifySession ==
    /\ res.fn = "none"
    /\ res' = [fn |-> "auditOrConfirm",
               out |-> verifySession(arg.hash_1, arg.key, arg.sign_1, arg.button)]
    /\ Idle
    /\ UNCHANGED arg

NextSign == VerifySession
SpecSign == InitSign /\ [][NextSign]_vars

SessionVerifies == arg.sign_1 = signData(arg.hash_1, arg.key)

\* C37: audit or confirm is carried out only when the session's stage-1 hash
\* verifies against the session's stage-1 signature under the authority's key;
\* when it does not verify, the session is cleared and the voter is redirected
\* to voting.
C37_ClearedWhenNotVerified ==
    res.fn = "auditOrConfirm" =>
        /\ res.out.carried # "none" => SessionVerifies
        /\ ~SessionVerifies =>
            /\ res.out.session = "cleared"
            /\ res.out.page = "voting"

\* the first half of C37 alone
C37_OnlyWhenVerified ==
    (res.fn = "auditOrConfirm" /\ res.out.carried # "none") => SessionVerifies

InitFinished ==
    /\ \E c1 \in {c \in SUBSET Choices : Cardinality(c) = max_answers},
          s1 \in [Choices -> SecretSet] :
        db = completeVoting(
                nextQuestion(MarkConfirmed(CastDone(insertElection, 1, 1, c1, s1), 1),
                             "v1", totalQuestions + 1),
                "v1")
    /\ session = [v \in Voters |->
                    IF v = "v1"
                    THEN [keys |-> {"_user_id"} \cup Stage1Keys, bid |-> 1]
                    ELSE EmptySession]
    /\ pc = [v \in Voters |-> "idle"]
    /\ newId = [v \in Voters |-> 0]
    /\ rows = [v \in Voters |-> {}]
    /\ last = NoRequest
    /\ clock = start_time
    /\ jsonFile = NoFile
    /\ allocated = [i \in Ids |-> IF i = 1 THEN 1 ELSE 0]
    /\ faults = 0
    /\ counted = [i \in Ids |-> 0]
    /\ owner = [i \in Ids |-> IF i = 1 THEN "v1" ELSE Nobody]
    /\ arg = NoCall
    /\ res = NoCall

\* voting and auditOrConfirm for a user with current_user.voted: the redirect
\* to the results page
VotedRedirect(v) ==
    /\ pc[v] = "idle"
    /\ LoggedIn(v)
    /\ db.voters[v].finished_voting # 0
    /\ res' = [fn |-> "redirect", page |-> "results", voter |-> v]
    /\ Idle
    /\ UNCHANGED arg

NextFinished == Next \/ \E v \in Voters : VotedRedirect(v)
SpecFinished == InitFinished /\ [][NextFinished]_vars

\* C39: a voter who is marked as having finished voting never casts, audits or
\* confirms another ballot; every such request is redirected to the results
\* page and changes nothing.
C39_FinishedVoterIsTurnedAway ==
    [][\A v \in Voters : db.voters[v].finished_voting = 1 =>
        /\ ~(CastStart(v) \/ CastFinish(v) \/ Audit(v) \/ Confirm(v))
        /\ VotedRedirect(v) => (db' = db /\ session' = session)]_vars

\* a finished voter whose session still holds the stage-1 receipt of the
\* confirmed ballot has sent a request and was redirected, while the other
\* voter is voting
C39_Witness ==
    /\ res.fn = "redirect"
    /\ res.page = "results"
    /\ db.voters[res.voter].finished_voting = 1
    /\ Stage1Keys \subseteq session[res.voter].keys
    /\ CONFIRMED(session[res.voter].bid)
    /\ \E w \in Voters : w # res.voter /\ pc[w] = "cast"

====
